---- MODULE Spec2Model ----
(***************************************************************************)
(* A model of the CAD geometry engine: the reference geometry backend      *)
(* (GeometryJS), the dual-backend facade of the TypeScript SDK, and the    *)
(* interactive canvas of the React demo together with the application      *)
(* state (shape collection, selection, active tool) it is mounted in.      *)
(*                                                                         *)
(* Numbers.  A JavaScript number is an IEEE-754 double, and the operators  *)
(* QAdd, QSub, QMul, QDiv and QLt compute what +, -, *, / and < compute on *)
(* doubles: the exact result rounded to 53 significant bits, ties to even. *)
(* A double whose value is k / 2^j with small k and j is written as the    *)
(* fraction [n |-> k, d |-> 2^j]; any other double is written as           *)
(* [neg, m, e] and has the value (-1)^neg * m * 2^e, with m an odd natural *)
(* number written in digits of base 2^14, lowest digit first.  Every       *)
(* double has one of the two forms only, so equal numbers are equal        *)
(* values of the model.  Not modelled: the sign of zero, subnormal         *)
(* numbers and overflow, which the inputs do not reach.                    *)
(*                                                                         *)
(* Math.sqrt is only applied to squares of fractions, where it is exact.   *)
(* An angle is a whole number j of 32nds of a turn and stands for the      *)
(* double (j / 32) * 2 * Math.PI; Math.cos and Math.sin of it are the      *)
(* doubles that the functions return for that double, read from a table.   *)
(***************************************************************************)
EXTENDS Integers, Sequences, FiniteSets, TLC

VARIABLES
    \* index.ts: module state
    wasmModule,      \* "null", or "wasm" once the performance backend is loaded
    isInitialized,   \* the initialized flag
    initPc,          \* where each call of init() stands
    \* a call of one exported function of the SDK
    args,            \* the function called and its arguments
    backend,         \* what the performance backend did in that call
    ret              \* what the call did: returned a value, or threw

VARIABLES
    \* App.tsx: application state
    shapes,                \* the shape collection, in insertion (paint) order
    selectedShape,         \* the selected shape's id, or NoShape
    selectedTool,          \* "select", "rotate" or "scale"
    \* the canvas component: refs
    isDragging,
    dragStart,
    lastMousePos,
    lastUpdateTime,
    initialScaleDistance,
    \* the selectedTool that the memoized handleMouseDown closed over
    mouseDownTool,
    \* the canvas component: the memoized world-space polygons of the shapes
    shapePolygons,
    \* components/Canvas.tsx: the props that the registered listeners closed over
    listenerShapes,
    listenerSelected,
    \* components/Canvas.tsx: the props of the latest render while its effect
    \* has not run yet, or Absent
    pendingEffect,
    \* the environment
    now,                   \* what Date.now() returns
    eventCount,            \* how many button and pointer events the user made
    \* observation
    event,                 \* the last event, and whether it called onShapeUpdate
    pointerSession,        \* a pointer-down hit a shape and no up/leave came since
    lastEmitTime           \* the clock at the last onShapeUpdate of a pointer-move

sdkVars == << wasmModule, isInitialized, initPc, args, backend, ret >>
appVars == << shapes, selectedShape, selectedTool >>
refVars == << isDragging, dragStart, lastMousePos, lastUpdateTime, initialScaleDistance >>
\* what a render computes from the shape collection
memoVars == << mouseDownTool, shapePolygons >>
listenerVars == << listenerShapes, listenerSelected, pendingEffect >>
canvasVars == << appVars, refVars, memoVars, listenerVars, now, eventCount, event,
                pointerSession, lastEmitTime >>
vars == << sdkVars, canvasVars >>

(***************************************************************************)
(* Integers and fractions                                                  *)
(***************************************************************************)
RECURSIVE GCD(_, _)
GCD(a, b) == IF b = 0 THEN a ELSE GCD(b, a % b)

IntAbs(i) == IF i < 0 THEN -i ELSE i

\* n / d in lowest terms with a positive denominator, for integers n and d # 0
Reduced(n, d) ==
    LET g == GCD(IntAbs(n), IntAbs(d))
        s == IF d < 0 THEN -1 ELSE 1
    IN  [n |-> (s * n) \div g, d |-> (s * d) \div g]

Q(i) == [n |-> i, d |-> 1]

RECURSIVE IsPowerOfTwo(_)
IsPowerOfTwo(i) == i = 1 \/ (i > 1 /\ i % 2 = 0 /\ IsPowerOfTwo(i \div 2))

\* The number of binary digits of i >= 0
RECURSIVE IntBitLength(_)
IntBitLength(i) == IF i = 0 THEN 0 ELSE 1 + IntBitLength(i \div 2)

RECURSIVE IntTrailingZeros(_)
IntTrailingZeros(i) == IF i % 2 = 1 THEN 0 ELSE 1 + IntTrailingZeros(i \div 2)

(***************************************************************************)
(* Natural numbers of any size: the sequence of the digits in base 2^14,   *)
(* lowest first, without leading zero digits; << >> is zero.               *)
(***************************************************************************)
LimbBits == 7 + 7
Base == 2^LimbBits

Limb(a, i) == IF i >= 1 /\ i <= Len(a) THEN a[i] ELSE 0

RECURSIVE Trim(_)
Trim(a) ==
    IF a = << >> THEN a
    ELSE IF a[Len(a)] = 0 THEN Trim(SubSeq(a, 1, Len(a) - 1))
    ELSE a

\* The integer i >= 0
BigOfInt(i) == Trim(<< i % Base, (i \div Base) % Base, i \div (Base * Base) >>)

RECURSIVE AddFrom(_, _, _, _)
AddFrom(a, b, i, carry) ==
    IF i > Len(a) /\ i > Len(b)
    THEN IF carry = 0 THEN << >> ELSE << carry >>
    ELSE LET s == Limb(a, i) + Limb(b, i) + carry
         IN  << s % Base >> \o AddFrom(a, b, i + 1, s \div Base)

BigAdd(a, b) == AddFrom(a, b, 1, 0)

RECURSIVE SubFrom(_, _, _, _)
SubFrom(a, b, i, borrow) ==
    IF i > Len(a) THEN << >>
    ELSE LET s == a[i] - Limb(b, i) - borrow
         IN  << s % Base >> \o SubFrom(a, b, i + 1, IF s < 0 THEN 1 ELSE 0)

\* a - b for a >= b
BigSub(a, b) == Trim(SubFrom(a, b, 1, 0))

RECURSIVE LessFrom(_, _, _)
LessFrom(a, b, i) ==
    IF i = 0 THEN FALSE
    ELSE IF a[i] # b[i] THEN a[i] < b[i]
    ELSE LessFrom(a, b, i - 1)

BigLess(a, b) == IF Len(a) # Len(b) THEN Len(a) < Len(b) ELSE LessFrom(a, b, Len(a))

\* The sum of the digit products of a and b that fall on digit k, for a of
\* at most four digits
Column(a, b, k) ==
    LET Term(i) == IF i <= Len(a) /\ k + 1 - i >= 1 /\ k + 1 - i <= Len(b)
                   THEN a[i] * b[k + 1 - i]
                   ELSE 0
    IN  Term(1) + Term(2) + Term(3) + Term(4)

RECURSIVE MulFrom(_, _, _, _)
MulFrom(a, b, k, carry) ==
    IF k > Len(a) + Len(b) THEN << >>
    ELSE LET s == Column(a, b, k) + carry
         IN  << s % Base >> \o MulFrom(a, b, k + 1, s \div Base)

BigMul(a, b) == Trim(MulFrom(a, b, 1, 0))

\* The number of binary digits of a
BitLength(a) ==
    IF a = << >> THEN 0 ELSE LimbBits * (Len(a) - 1) + IntBitLength(a[Len(a)])

\* a * 2^k
ShiftLeft(a, k) ==
    LET q == k \div LimbBits
        f == 2^(k % LimbBits)
        Digit(i) == IF i <= q THEN 0
                    ELSE ((Limb(a, i - q) * f) % Base) + ((Limb(a, i - q - 1) * f) \div Base)
    IN  IF a = << >> THEN a ELSE Trim([i \in 1..(Len(a) + q + 1) |-> Digit(i)])

\* a \div 2^k
ShiftRight(a, k) ==
    LET q == k \div LimbBits
        r == k % LimbBits
        f == 2^r
        g == 2^(LimbBits - r)
        Digit(i) == (Limb(a, i + q) \div f) + (Limb(a, i + q + 1) % f) * g
    IN  IF Len(a) <= q THEN << >> ELSE Trim([i \in 1..(Len(a) - q) |-> Digit(i)])

\* The binary digit of a of weight 2^k
Bit(a, k) == (Limb(a, (k \div LimbBits) + 1) \div 2^(k % LimbBits)) % 2

\* Some binary digit of a of weight below 2^k is 1.
LowBitsSet(a, k) ==
    \/ \E i \in 1..(k \div LimbBits) : Limb(a, i) # 0
    \/ Limb(a, (k \div LimbBits) + 1) % 2^(k % LimbBits) # 0

RECURSIVE TrailingZerosFrom(_, _)
TrailingZerosFrom(a, i) ==
    IF a[i] = 0 THEN LimbBits + TrailingZerosFrom(a, i + 1) ELSE IntTrailingZeros(a[i])

\* The number of zero binary digits below the lowest 1 of a # 0
TrailingZeros(a) == TrailingZerosFrom(a, 1)

(***************************************************************************)
(* Doubles                                                                 *)
(***************************************************************************)
\* The binary digits of the significand of a double: the leading one and the
\* 52 that are stored
SignificandBits == 1 + 52
\* A double is written as a fraction when it is k / 2^j with k of at most
\* FractionBits binary digits and j <= FractionPlaces.
FractionBits == 2 * 15
FractionPlaces == 2 * 5
\* The sums, products and comparisons of fractions k / 2^j with
\* |k| < SmallNumerator and 2^j <= SmallDenominator are computed on the
\* integers, where they are exact.
SmallNumerator == 2^15
SmallDenominator == 2^5

Double(neg, m, e) == [neg |-> neg, m |-> m, e |-> e]

IsFraction(v) == "n" \in DOMAIN v

IsSmall(v) ==
    /\ IsFraction(v)
    /\ IntAbs(v.n) < SmallNumerator
    /\ v.d <= SmallDenominator

Signed(neg, i) == IF neg THEN -i ELSE i

IntMin(i, j) == IF i < j THEN i ELSE j

\* The natural number a of at most three digits as an integer
SmallValue(a) == Limb(a, 1) + Base * Limb(a, 2) + Base * Base * Limb(a, 3)

\* The number (-1)^neg * odd * 2^x, odd an odd number, in the form that the
\* model writes it in
CanonicalOdd(neg, odd, x) ==
    IF x >= 0 /\ BitLength(odd) + x <= FractionBits
    THEN Q(Signed(neg, SmallValue(odd) * 2^x))
    ELSE IF x < 0 /\ -x <= FractionPlaces /\ BitLength(odd) <= FractionBits
    THEN [n |-> Signed(neg, SmallValue(odd)), d |-> 2^(-x)]
    ELSE Double(neg, odd, x)

\* (-1)^neg * m * 2^e for m # 0 with t trailing zero digits
CanonicalShifted(neg, m, e, t) == CanonicalOdd(neg, ShiftRight(m, t), e + t)

\* The number (-1)^neg * m * 2^e in the form that the model writes it in
Canonical(neg, m, e) ==
    IF m = << >> THEN Q(0) ELSE CanonicalShifted(neg, m, e, TrailingZeros(m))

\* Rounding m + r to a multiple of 2^drop goes up: the digit below 2^drop
\* is 1, and a lower digit is 1 or the result would be odd.
RoundsUp(m, drop, sticky) ==
    /\ Bit(m, drop - 1) = 1
    /\ (sticky \/ LowBitsSet(m, drop - 1) \/ Bit(m, drop) = 1)

\* m + r in units of 2^drop, rounded to nearest, ties to even
KeptDigits(m, drop, sticky) ==
    IF drop <= 0 THEN m
    ELSE BigAdd(ShiftRight(m, drop), IF RoundsUp(m, drop, sticky) THEN << 1 >> ELSE << >>)

RoundAt(neg, m, e, sticky, drop) ==
    Canonical(neg, KeptDigits(m, drop, sticky), IF drop <= 0 THEN e ELSE e + drop)

\* The double nearest to (-1)^neg * (m + r) * 2^e, where 0 < r < 1 if sticky
\* and r = 0 otherwise; ties go to the even significand
RoundToNearest(neg, m, e, sticky) ==
    RoundAt(neg, m, e, sticky, BitLength(m) - SignificandBits)

\* The first count binary digits of num / den, for num < 2 * den, and
\* whether nothing is left after them
RECURSIVE DivideBits(_, _, _)
DivideBits(num, den, count) ==
    IF count = 0 THEN [quotient |-> << >>, exact |-> num = << >>]
    ELSE IF BigLess(num, den) THEN DivideBits(ShiftLeft(num, 1), den, count - 1)
    ELSE LET r == DivideBits(ShiftLeft(BigSub(num, den), 1), den, count - 1)
         IN  [r EXCEPT !.quotient = BigAdd(r.quotient, ShiftLeft(<< 1 >>, count - 1))]

RoundQuotient(neg, r, e) == RoundToNearest(neg, r.quotient, e, ~r.exact)

\* a / b for a of la and b of lb binary digits
DivideAligned(neg, a, b, e, la, lb) ==
    RoundQuotient(neg,
                  DivideBits(IF la < lb THEN ShiftLeft(a, lb - la) ELSE a,
                             IF lb < la THEN ShiftLeft(b, la - lb) ELSE b,
                             SignificandBits + 3),
                  e + (la - lb) - (SignificandBits + 2))

\* (-1)^neg * (a * 2^ae) / (b * 2^be) for b # 0
DoubleDivide(neg, a, ae, b, be) ==
    DivideAligned(neg, a, b, ae - be, BitLength(a), BitLength(b))

\* The sign, significand and exponent of a number
Parts(v) ==
    IF IsFraction(v)
    THEN Double(v.n < 0, BigOfInt(IntAbs(v.n)), -(IntBitLength(v.d) - 1))
    ELSE v

\* The sign and the magnitude of (-1)^aneg * x + (-1)^bneg * y
SumIsNegative(aneg, x, bneg, y) ==
    IF aneg = bneg THEN aneg ELSE IF BigLess(x, y) THEN bneg ELSE aneg

SumMagnitude(aneg, x, bneg, y) ==
    IF aneg = bneg THEN BigAdd(x, y)
    ELSE IF BigLess(x, y) THEN BigSub(y, x)
    ELSE BigSub(x, y)

AddAligned(aneg, x, bneg, y, e) ==
    RoundToNearest(SumIsNegative(aneg, x, bneg, y), SumMagnitude(aneg, x, bneg, y),
                   e, FALSE)

DoubleAdd(a, b) ==
    AddAligned(a.neg, ShiftLeft(a.m, a.e - IntMin(a.e, b.e)),
               b.neg, ShiftLeft(b.m, b.e - IntMin(a.e, b.e)), IntMin(a.e, b.e))

DoubleMul(a, b) == RoundToNearest(a.neg # b.neg, BigMul(a.m, b.m), a.e + b.e, FALSE)

DoubleQuotient(a, b) == DoubleDivide(a.neg # b.neg, a.m, a.e, b.m, b.e)

\* |a| < |b|
MagnitudeLess(a, b) ==
    IF b.m = << >> THEN FALSE
    ELSE IF a.m = << >> THEN TRUE
    ELSE IF BitLength(a.m) + a.e # BitLength(b.m) + b.e
    THEN BitLength(a.m) + a.e < BitLength(b.m) + b.e
    ELSE BigLess(ShiftLeft(a.m, a.e - IntMin(a.e, b.e)),
                 ShiftLeft(b.m, b.e - IntMin(a.e, b.e)))

DoubleLess(a, b) ==
    IF a.neg # b.neg THEN a.neg /\ (a.m # << >> \/ b.m # << >>)
    ELSE MagnitudeLess(IF a.neg THEN b ELSE a, IF a.neg THEN a ELSE b)

(***************************************************************************)
(* The operators of the JavaScript number type                             *)
(***************************************************************************)
\* The double n / d for integers n and d # 0; also what a decimal literal
\* such as 0.1 denotes
Frac(n, d) ==
    IF IsPowerOfTwo(Reduced(n, d).d) /\ Reduced(n, d).d <= 2^FractionPlaces
    THEN Reduced(n, d)
    ELSE DoubleQuotient(Parts(Q(n)), Parts(Q(d)))

QNeg(a) == IF IsFraction(a) THEN [n |-> -(a.n), d |-> a.d]
           ELSE [a EXCEPT !.neg = ~a.neg]

\* a + b
QAdd(a, b) ==
    IF a = Q(0) THEN b
    ELSE IF b = Q(0) THEN a
    ELSE IF IsSmall(a) /\ IsSmall(b) THEN Reduced(a.n * b.d + b.n * a.d, a.d * b.d)
    ELSE DoubleAdd(Parts(a), Parts(b))

\* a - b
QSub(a, b) == QAdd(a, QNeg(b))

\* a * b
QMul(a, b) ==
    IF a = Q(0) \/ b = Q(0) THEN Q(0)
    ELSE IF a = Q(1) THEN b
    ELSE IF b = Q(1) THEN a
    ELSE IF IsSmall(a) /\ IsSmall(b) THEN Reduced(a.n * b.n, a.d * b.d)
    ELSE DoubleMul(Parts(a), Parts(b))

\* The quotient of two small fractions is a fraction of the model.
ExactQuotient(a, b) ==
    /\ IsSmall(a)
    /\ IsSmall(b)
    /\ IsPowerOfTwo(Reduced(a.n * b.d, a.d * b.n).d)
    /\ Reduced(a.n * b.d, a.d * b.n).d <= 2^FractionPlaces

\* a / b for b # 0
QDiv(a, b) ==
    IF a = Q(0) THEN Q(0)
    ELSE IF b = Q(1) THEN a
    ELSE IF ExactQuotient(a, b) THEN Reduced(a.n * b.d, a.d * b.n)
    ELSE DoubleQuotient(Parts(a), Parts(b))

\* a < b
QLt(a, b) ==
    IF IsSmall(a) /\ IsSmall(b) THEN a.n * b.d < b.n * a.d
    ELSE DoubleLess(Parts(a), Parts(b))

QLe(a, b) == ~QLt(b, a)
QGt(a, b) == QLt(b, a)
QGe(a, b) == ~QLt(a, b)
\* Math.max, Math.min, Math.abs
QMax(a, b) == IF QLt(a, b) THEN b ELSE a
QMin(a, b) == IF QLt(b, a) THEN b ELSE a
QAbs(a) == IF IsFraction(a) THEN [n |-> IntAbs(a.n), d |-> a.d]
           ELSE [a EXCEPT !.neg = FALSE]

\* The integer square root of n >= 0 (the largest r with r * r <= n), by bisection.
RECURSIVE ISqrtIn(_, _, _)
ISqrtIn(n, lo, hi) ==
    IF lo >= hi THEN lo
    ELSE LET mid == (lo + hi + 1) \div 2
         IN  IF mid * mid <= n THEN ISqrtIn(n, mid, hi) ELSE ISqrtIn(n, lo, mid - 1)

ISqrt(n) == ISqrtIn(n, 0, IF n < 46340 THEN n ELSE 46340)

\* Whether a is the square of a fraction, and then Math.sqrt(a), which is exact.
IsSquare(a) ==
    /\ IsFraction(a)
    /\ a.n >= 0
    /\ ISqrt(a.n) * ISqrt(a.n) = a.n
    /\ ISqrt(a.d) * ISqrt(a.d) = a.d

QSqrt(a) == [n |-> ISqrt(a.n), d |-> ISqrt(a.d)]

(***************************************************************************)
(* Math.cos and Math.sin.  The tables hold, for j = 0 .. 32, the doubles   *)
(* that Math.cos and Math.sin of V8 (node, Chromium) return for the double *)
(* (j / 32) * 2 * Math.PI; entry j is at index j + 1.  They are the        *)
(* nearest doubles to the cosine and the sine but for the sine of 11/32 of *)
(* a turn, where V8 returns 0.8314696123025453, the double below the       *)
(* nearest one.  The double i * ((2 * Math.PI) / n) is the same double as  *)
(* (j / 32) * 2 * Math.PI for j = i * 32 / n and n a power of two up to    *)
(* 32, and k * (Math.PI / 2) is the one for j = 8 * k.                     *)
(***************************************************************************)
CosineTable ==
    << Q(1),
       Double(FALSE, << 13771, 13309, 8855, 125 >>, -49),
       Double(FALSE, << 1699, 7781, 862, 946 >>, -52),
       Double(FALSE, << 8611, 9274, 13922, 1702 >>, -53),
       Double(FALSE, << 15309, 6652, 2534, 1448 >>, -53),
       Double(FALSE, << 10441, 9913, 13235, 1137 >>, -53),
       Double(FALSE, << 10841, 9902, 14218, 391 >>, -52),
       Double(FALSE, << 9741, 12710, 2947, 1598 >>, -55),
       Double(FALSE, << 7175, 3153, 8803, 1129 >>, -106),
       Double(TRUE, << 13505, 7732, 12656, 199 >>, -52),
       Double(TRUE, << 5297, 3421, 12053, 783 >>, -53),
       Double(TRUE, << 13411, 13148, 14809, 568 >>, -52),
       Double(TRUE, << 3827, 9855, 633, 362 >>, -51),
       Double(TRUE, << 10345, 10510, 11672, 425 >>, -51),
       Double(TRUE, << 1699, 7781, 862, 946 >>, -52),
       Double(TRUE, << 13771, 13309, 8855, 125 >>, -49),
       Q(-1),
       Double(TRUE, << 13771, 13309, 8855, 125 >>, -49),
       Double(TRUE, << 3399, 15562, 1724, 1892 >>, -53),
       Double(TRUE, << 8613, 9274, 13922, 1702 >>, -53),
       Double(TRUE, << 7655, 3326, 1267, 724 >>, -52),
       Double(TRUE, << 3353, 7383, 3702, 142 >>, -50),
       Double(TRUE, << 10605, 6842, 7722, 1567 >>, -54),
       Double(TRUE, << 9753, 12710, 2947, 1598 >>, -55),
       Double(TRUE, << 1285, 6461, 2506, 847 >>, -104),
       Double(FALSE, << 10627, 15465, 8928, 399 >>, -53),
       Double(FALSE, << 10599, 6842, 7722, 1567 >>, -54),
       Double(FALSE, << 10437, 9913, 13235, 1137 >>, -53),
       Double(FALSE, << 15307, 6652, 2534, 1448 >>, -53),
       Double(FALSE, << 8611, 9274, 13922, 1702 >>, -53),
       Double(FALSE, << 9041, 3890, 431, 473 >>, -51),
       Double(FALSE, << 7343, 16349, 10620, 2008 >>, -53),
       Q(1) >>

SineTable ==
    << Q(0),
       Double(FALSE, << 4869, 14547, 1473, 799 >>, -54),
       Double(FALSE, << 10595, 6842, 7722, 1567 >>, -54),
       Double(FALSE, << 3353, 7383, 3702, 142 >>, -50),
       Double(FALSE, << 3827, 9855, 633, 362 >>, -51),
       Double(FALSE, << 8611, 9274, 13922, 1702 >>, -53),
       Double(FALSE, << 1699, 7781, 862, 946 >>, -52),
       Double(FALSE, << 13771, 13309, 8855, 125 >>, -49),
       Q(1),
       Double(FALSE, << 13771, 13309, 8855, 125 >>, -49),
       Double(FALSE, << 1699, 7781, 862, 946 >>, -52),
       Double(FALSE, << 10345, 10510, 11672, 425 >>, -51),
       Double(FALSE, << 15309, 6652, 2534, 1448 >>, -53),
       Double(FALSE, << 3353, 7383, 3702, 142 >>, -50),
       Double(FALSE, << 10597, 6842, 7722, 1567 >>, -54),
       Double(FALSE, << 9751, 12710, 2947, 1598 >>, -55),
       Double(FALSE, << 7175, 3153, 8803, 1129 >>, -105),
       Double(TRUE, << 4871, 14547, 1473, 799 >>, -54),
       Double(TRUE, << 10593, 6842, 7722, 1567 >>, -54),
       Double(TRUE, << 13411, 13148, 14809, 568 >>, -52),
       Double(TRUE, << 3827, 9855, 633, 362 >>, -51),
       Double(TRUE, << 8611, 9274, 13922, 1702 >>, -53),
       Double(TRUE, << 9041, 3890, 431, 473 >>, -51),
       Double(TRUE, << 7343, 16349, 10620, 2008 >>, -53),
       Q(-1),
       Double(TRUE, << 13771, 13309, 8855, 125 >>, -49),
       Double(TRUE, << 3397, 15562, 1724, 1892 >>, -53),
       Double(TRUE, << 8613, 9274, 13922, 1702 >>, -53),
       Double(TRUE, << 7655, 3326, 1267, 724 >>, -52),
       Double(TRUE, << 3353, 7383, 3702, 142 >>, -50),
       Double(TRUE, << 5303, 3421, 12053, 783 >>, -53),
       Double(TRUE, << 9755, 12710, 2947, 1598 >>, -55),
       Double(TRUE, << 7175, 3153, 8803, 1129 >>, -104) >>

\* Math.cos and Math.sin of j 32nds of a turn, 0 <= j <= 32
CosOfTurn(j) == CosineTable[j + 1]
SinOfTurn(j) == SineTable[j + 1]

\* Math.cos and Math.sin of k quarter turns, -4 <= k <= 4
Cos(k) == CosOfTurn(8 * IntAbs(k))
Sin(k) == IF k < 0 THEN QNeg(SinOfTurn(8 * IntAbs(k))) ELSE SinOfTurn(8 * k)

Pt(x, y) == [x |-> x, y |-> y]
\* The point with integer coordinates (i, j).
IPt(i, j) == [x |-> Q(i), y |-> Q(j)]

\* An optional field of an options object: absent, or present with a value.
Absent == << >>
Present(v) == << v >>
IsPresent(o) == Len(o) = 1
ValueOf(o) == o[1]

(***************************************************************************)
(* GeometryJS: the reference backend.  A polygon is its vertex sequence.   *)
(***************************************************************************)
\* vertex j = (i + 1) % n of the code's 0-based loop, for the 1-based index i
NextIndex(i, n) == (i % n) + 1

RECURSIVE ShoelaceSum(_, _)
ShoelaceSum(vertices, i) ==
    IF i = 0 THEN Q(0)
    ELSE LET j == NextIndex(i, Len(vertices))
         IN  QSub(QAdd(ShoelaceSum(vertices, i - 1),
                       QMul(vertices[i].x, vertices[j].y)),
                  QMul(vertices[j].x, vertices[i].y))

\* area as it would be with the accumulated sum returned without Math.abs
GeometryJS_area_SignedArea(vertices) ==
    IF Len(vertices) < 3 THEN Q(0)
    ELSE QDiv(ShoelaceSum(vertices, Len(vertices)), Q(2))

GeometryJS_area(vertices) ==
    IF Len(vertices) < 3 THEN Q(0)
    ELSE QDiv(QAbs(ShoelaceSum(vertices, Len(vertices))), Q(2))

\* dx * dx + dy * dy for the edge from a to b
EdgeLengthSquared(a, b) ==
    LET dx == QSub(b.x, a.x)
        dy == QSub(b.y, a.y)
    IN  QAdd(QMul(dx, dx), QMul(dy, dy))

EdgeLength(a, b) == QSqrt(EdgeLengthSquared(a, b))

RECURSIVE EdgeSum(_, _)
EdgeSum(vertices, i) ==
    IF i = 0 THEN Q(0)
    ELSE QAdd(EdgeSum(vertices, i - 1),
              EdgeLength(vertices[i], vertices[NextIndex(i, Len(vertices))]))

GeometryJS_perimeter(vertices) ==
    IF Len(vertices) < 2 THEN Q(0)
    ELSE EdgeSum(vertices, Len(vertices))

RECURSIVE SumX(_, _)
SumX(vertices, i) ==
    IF i = 0 THEN Q(0) ELSE QAdd(SumX(vertices, i - 1), vertices[i].x)

\* The second accumulator as it would be with cy += vertex.x
SumY_AddsX(vertices, i) == SumX(vertices, i)

RECURSIVE SumY(_, _)
SumY(vertices, i) ==
    IF i = 0 THEN Q(0) ELSE QAdd(SumY(vertices, i - 1), vertices[i].y)

\* The value of 0 / 0
NotANumber == [n |-> 0, d |-> 0]

\* centroid as it would be without the early return for no vertices
GeometryJS_centroid_WithoutEmptyCase(vertices) ==
    IF Len(vertices) = 0 THEN Pt(NotANumber, NotANumber)
    ELSE Pt(QDiv(SumX(vertices, Len(vertices)), Q(Len(vertices))),
            QDiv(SumY(vertices, Len(vertices)), Q(Len(vertices))))

GeometryJS_centroid(vertices) ==
    IF Len(vertices) = 0 THEN IPt(0, 0)
    ELSE Pt(QDiv(SumX(vertices, Len(vertices)), Q(Len(vertices))),
            QDiv(SumY(vertices, Len(vertices)), Q(Len(vertices))))

IdentityMatrix ==
    [m11 |-> Q(1), m12 |-> Q(0), m21 |-> Q(0), m22 |-> Q(1), dx |-> Q(0), dy |-> Q(0)]

\* The translate step as it would be with matrix.dy = options.translate.x
ApplyTranslateOption_CopiesXToDy(matrix, options) ==
    IF IsPresent(options.translate)
    THEN [matrix EXCEPT !.dx = ValueOf(options.translate).x,
                        !.dy = ValueOf(options.translate).x]
    ELSE matrix

\* if (options.translate) { matrix.dx = ...; matrix.dy = ... }
ApplyTranslateOption(matrix, options) ==
    IF IsPresent(options.translate)
    THEN [matrix EXCEPT !.dx = ValueOf(options.translate).x,
                        !.dy = ValueOf(options.translate).y]
    ELSE matrix

\* The scale step as it would be with matrix.m22 *= options.scale.x
ApplyScaleOption_ScalesBothByX(matrix, options) ==
    IF IsPresent(options.scale)
    THEN [matrix EXCEPT !.m11 = QMul(matrix.m11, ValueOf(options.scale).x),
                        !.m22 = QMul(matrix.m22, ValueOf(options.scale).x)]
    ELSE matrix

\* if (options.scale) { matrix.m11 *= scale.x; matrix.m22 *= scale.y }
ApplyScaleOption(matrix, options) ==
    IF IsPresent(options.scale)
    THEN [matrix EXCEPT !.m11 = QMul(matrix.m11, ValueOf(options.scale).x),
                        !.m22 = QMul(matrix.m22, ValueOf(options.scale).y)]
    ELSE matrix

\* if (options.rotate !== undefined) { newM11 = m11 * cos - m12 * sin; ... }
ApplyRotateOption(matrix, options) ==
    IF IsPresent(options.rotate)
    THEN LET cos == Cos(ValueOf(options.rotate))
             sin == Sin(ValueOf(options.rotate))
         IN  [matrix EXCEPT
                !.m11 = QSub(QMul(matrix.m11, cos), QMul(matrix.m12, sin)),
                !.m12 = QAdd(QMul(matrix.m11, sin), QMul(matrix.m12, cos)),
                !.m21 = QSub(QMul(matrix.m21, cos), QMul(matrix.m22, sin)),
                !.m22 = QAdd(QMul(matrix.m21, sin), QMul(matrix.m22, cos))]
    ELSE matrix

GeometryJS_createMatrix(options) ==
    ApplyRotateOption(
        ApplyScaleOption(ApplyTranslateOption(IdentityMatrix, options), options),
        options)

\* The mapped vertex as it would be with newY = m21 * x + m22 * x + dy
TransformVertex_UsesXTwice(vertex, matrix) ==
    Pt(QAdd(QAdd(QMul(matrix.m11, vertex.x), QMul(matrix.m12, vertex.y)), matrix.dx),
       QAdd(QAdd(QMul(matrix.m21, vertex.x), QMul(matrix.m22, vertex.x)), matrix.dy))

TransformVertex(vertex, matrix) ==
    Pt(QAdd(QAdd(QMul(matrix.m11, vertex.x), QMul(matrix.m12, vertex.y)), matrix.dx),
       QAdd(QAdd(QMul(matrix.m21, vertex.x), QMul(matrix.m22, vertex.y)), matrix.dy))

\* transform as it would be with the loop starting at the second vertex
GeometryJS_transform_SkipsFirstVertex(vertices, matrix) ==
    [i \in 1..(Len(vertices) - 1) |-> TransformVertex(vertices[i + 1], matrix)]

GeometryJS_transform(vertices, matrix) ==
    [i \in 1..Len(vertices) |-> TransformVertex(vertices[i], matrix)]

GeometryJS_createSquare(size) ==
    << Pt(Q(0), Q(0)), Pt(size, Q(0)), Pt(size, size), Pt(Q(0), size) >>

GeometryJS_createTriangle(base, height) ==
    << Pt(Q(0), Q(0)), Pt(base, Q(0)), Pt(QDiv(base, Q(2)), height) >>

(***************************************************************************)
(* The canvas component and the application state it is mounted in.        *)
(* Pointer events whose handling would take Math.sqrt of a non-square or   *)
(* Math.atan2 off the axes are not generated.                              *)
(***************************************************************************)
NoShape == 0
Tools == {"select", "rotate", "scale"}
ShapeTypes == {"square", "triangle", "circle"}

ShapeSize == 50
TriangleBase == 60
TriangleHeight == 40
Margin == 10
ThrottleMs == 16
DefaultScaleDistance == 30
\* addShape's radius of a circle, getShapePolygon's radius of a circle that
\* has none, and the number of vertices it gives a circle
CircleRadius == 30
DefaultRadius == 30
CircleSegments == 32
\* addShape's center of a circle
CircleCenter == [x |-> Q(100), y |-> Q(100)]
MinScale == Frac(1, 10)
MaxScale == Q(5)

\* canvas.width and canvas.height, which draw() takes from the layout
CanvasWidth == 200
CanvasHeight == 200

\* a || b for an optional number a
OrDefault(a, b) == IF IsPresent(a) /\ ValueOf(a) # Q(0) THEN ValueOf(a) ELSE b

\* The circle branch of getShapePolygon: for i from 0 to 31 the vertex
\* (Math.cos(angle) * radius, Math.sin(angle) * radius), angle = (i / 32) * 2 * Math.PI
CirclePolygon(radius) ==
    [k \in 1..CircleSegments |->
        Pt(QMul(CosOfTurn(k - 1), radius), QMul(SinOfTurn(k - 1), radius))]

\* The circle of the radius that addShape gives
DefaultCirclePolygon == CirclePolygon(Q(DefaultRadius))

\* The square branch of getShapePolygon, halfSize = shape.size / 2
SquarePolygon(halfSize) ==
    << Pt(QNeg(halfSize), QNeg(halfSize)), Pt(halfSize, QNeg(halfSize)),
       Pt(halfSize, halfSize), Pt(QNeg(halfSize), halfSize) >>

\* The triangle branch, halfBase = (shape.base || 60) / 2 and
\* height = shape.height || 40
TrianglePolygon(halfBase, height) ==
    << Pt(Q(0), QDiv(QNeg(height), Q(2))),
       Pt(QNeg(halfBase), QDiv(height, Q(2))),
       Pt(halfBase, QDiv(height, Q(2))) >>

\* The circle branch, radius = shape.radius || 30
CircleOfRadius(radius) ==
    IF radius = Q(DefaultRadius) THEN DefaultCirclePolygon ELSE CirclePolygon(radius)

getShapePolygon(shape) ==
    CASE shape.type = "square" -> SquarePolygon(QDiv(shape.size, Q(2)))
      [] shape.type = "triangle" ->
            TrianglePolygon(QDiv(OrDefault(shape.base, Q(TriangleBase)), Q(2)),
                            OrDefault(shape.height, Q(TriangleHeight)))
      [] shape.type = "circle" -> CircleOfRadius(OrDefault(shape.radius, Q(DefaultRadius)))
      [] OTHER -> << >>

\* The forEach of getShapeBounds from the i-th number of a non-empty
\* sequence on: least = Math.min(least, numbers[i]), with least the minimum so
\* far (the first number is the minimum of itself and Infinity); likewise
\* Math.max
RECURSIVE MinOver(_, _, _)
MinOver(numbers, i, least) ==
    IF i > Len(numbers) THEN least
    ELSE IF QLt(numbers[i], least) THEN MinOver(numbers, i + 1, numbers[i])
    ELSE MinOver(numbers, i + 1, least)

RECURSIVE MaxOver(_, _, _)
MaxOver(numbers, i, most) ==
    IF i > Len(numbers) THEN most
    ELSE IF QGt(numbers[i], most) THEN MaxOver(numbers, i + 1, numbers[i])
    ELSE MaxOver(numbers, i + 1, most)

getShapeBounds(vertices) ==
    LET xs == [i \in 1..Len(vertices) |-> vertices[i].x]
        ys == [i \in 1..Len(vertices) |-> vertices[i].y]
    IN  [minX |-> MinOver(xs, 2, xs[1]),
         minY |-> MinOver(ys, 2, ys[1]),
         maxX |-> MaxOver(xs, 2, xs[1]),
         maxY |-> MaxOver(ys, 2, ys[1])]

\* The edge from vertex j to vertex i toggles `inside`.
EdgeCrosses(point, vi, vj) ==
    /\ QGt(vi.y, point.y) # QGt(vj.y, point.y)
    /\ QLt(point.x,
           QAdd(QDiv(QMul(QSub(vj.x, vi.x), QSub(point.y, vi.y)), QSub(vj.y, vi.y)),
                vi.x))

\* j = i - 1, and the last vertex for the first
PrevIndex(i, n) == IF i = 1 THEN n ELSE i - 1

isPointInPolygon(point, vertices) ==
    Cardinality({ i \in 1..Len(vertices) :
        EdgeCrosses(point, vertices[i], vertices[PrevIndex(i, Len(vertices))]) }) % 2 = 1

\* { x: vertex.x * scale.x, y: vertex.y * scale.y }
ScaledVertex(v, scale) == Pt(QMul(v.x, scale.x), QMul(v.y, scale.y))

\* { x: vertex.x * cos - vertex.y * sin, y: vertex.x * sin + vertex.y * cos }
RotatedVertex(v, cos, sin) ==
    Pt(QSub(QMul(v.x, cos), QMul(v.y, sin)), QAdd(QMul(v.x, sin), QMul(v.y, cos)))

\* basePolygon.map(scale).map(rotate)
ScaledRotated(base, transform) ==
    [i \in 1..Len(base) |->
        RotatedVertex(ScaledVertex(base[i], transform.scale),
                      Cos(transform.rotate), Sin(transform.rotate))]

\* The polygon of a shape scaled and rotated, without the translation
ScaledRotatedPolygon(shape) == ScaledRotated(getShapePolygon(shape), shape.transform)

\* The rotated sums, each with the translate added
Translated(local, translate) ==
    [i \in 1..Len(local) |->
        Pt(QAdd(local[i].x, translate.x), QAdd(local[i].y, translate.y))]

\* shapePolygons: the world-space polygon of a shape
WorldPolygon(shape) ==
    Translated(ScaledRotatedPolygon(shape), shape.transform.translate)

\* The shapePolygons that the render of a new shape collection memoizes: the
\* map of the collection.  It is a pure function of each shape, so a shape
\* that was in the collection before has the polygon it had.
ShapePolygonsOf(newShapes) ==
    [i \in 1..Len(newShapes) |->
        IF \E j \in 1..Len(shapes) : shapes[j] = newShapes[i]
        THEN shapePolygons[CHOOSE j \in 1..Len(shapes) : shapes[j] = newShapes[i]]
        ELSE WorldPolygon(newShapes[i])]

\* The render that follows a change of the shape collection
Rendered == shapePolygons' = ShapePolygonsOf(shapes')

\* shapes.find(s => s.id === id): the index of the first shape with that id, or 0
FindIndex(list, id) ==
    IF \E i \in 1..Len(list) : list[i].id = id
    THEN CHOOSE i \in 1..Len(list) :
            /\ list[i].id = id
            /\ \A k \in 1..(i - 1) : list[k].id # id
    ELSE 0

\* a / b of JavaScript numbers: 0 / 0 is NaN, and x / 0 is an infinity
JsDivide(a, b) ==
    IF b # Q(0) THEN QDiv(a, b)
    ELSE IF a = Q(0) THEN NotANumber
    ELSE [n |-> IF QLt(Q(0), a) THEN 1 ELSE -1, d |-> 0]

\* App's own metric functions: the loops of GeometryJS without its early
\* returns
calculateArea(polygon) == QDiv(QAbs(ShoelaceSum(polygon, Len(polygon))), Q(2))

calculatePerimeter(polygon) == EdgeSum(polygon, Len(polygon))

calculateCentroid(polygon) ==
    Pt(JsDivide(SumX(polygon, Len(polygon)), Q(Len(polygon))),
       JsDivide(SumY(polygon, Len(polygon)), Q(Len(polygon))))

\* App.addShape's new shape
NewShape(type, id, position) ==
    [id |-> id,
     type |-> type,
     size |-> Q(ShapeSize),
     base |-> IF type = "triangle" THEN Present(Q(TriangleBase)) ELSE Absent,
     height |-> IF type = "triangle" THEN Present(Q(TriangleHeight)) ELSE Absent,
     center |-> IF type = "circle" THEN Present(CircleCenter) ELSE Absent,
     radius |-> IF type = "circle" THEN Present(Q(CircleRadius)) ELSE Absent,
     transform |-> [translate |-> position, rotate |-> 0, scale |-> IPt(1, 1)]]

\* App.updateShape with updates = {transform}: every shape with the id is patched
updateShape(list, id, transform) ==
    [i \in 1..Len(list) |->
        IF list[i].id = id THEN [list[i] EXCEPT !.transform = transform] ELSE list[i]]

\* App.deleteShape's filter
RECURSIVE FilterOut(_, _)
FilterOut(list, id) ==
    IF list = << >> THEN << >>
    ELSE IF Head(list).id = id THEN FilterOut(Tail(list), id)
    ELSE << Head(list) >> \o FilterOut(Tail(list), id)

\* Math.atan2(dy, dx) in quarter turns, for (dx, dy) on an axis
OnAxis(dy, dx) == dx = Q(0) \/ dy = Q(0)
Atan2(dy, dx) ==
    CASE dy = Q(0) /\ QGe(dx, Q(0)) -> 0
      [] dy = Q(0) -> 2
      [] QGt(dy, Q(0)) -> 1
      [] OTHER -> -1

\* (x - centerX) ** 2 + (y - centerY) ** 2
DistanceSquared(x, y, center) ==
    QAdd(QMul(QSub(x, center.x), QSub(x, center.x)),
         QMul(QSub(y, center.y), QSub(y, center.y)))

\* handleMouseDown's loop over transformedShapes: the index of the first
\* shape, in collection order, whose memoized polygon holds the point; 0 if
\* none
RECURSIVE FirstHitFrom(_, _, _)
FirstHitFrom(x, y, i) ==
    IF i > Len(shapePolygons) THEN 0
    ELSE IF isPointInPolygon(Pt(x, y), shapePolygons[i]) THEN i
    ELSE FirstHitFrom(x, y, i + 1)

ClickedIndex(x, y) == FirstHitFrom(x, y, 1)

\* handleMouseDown's branches, for the index clicked that its loop found
MouseDownOn(x, y, clicked) ==
    IF clicked # 0
    THEN LET shape == shapes[FindIndex(shapes, shapes[clicked].id)]
         IN  /\ selectedShape' = shapes[clicked].id
             /\ isDragging' = TRUE
             /\ dragStart' = Pt(QSub(x, shape.transform.translate.x),
                                QSub(y, shape.transform.translate.y))
             /\ initialScaleDistance' =
                    IF mouseDownTool = "scale"
                    THEN QSqrt(DistanceSquared(x, y, shape.transform.translate))
                    ELSE initialScaleDistance
             /\ lastMousePos' = Pt(x, y)
             /\ UNCHANGED << shapes, selectedTool, lastUpdateTime, memoVars >>
    ELSE /\ selectedShape' = NoShape
         /\ UNCHANGED << shapes, selectedTool, refVars, memoVars >>

\* handleMouseDown at canvas position (x, y)
handleMouseDown(x, y) == MouseDownOn(x, y, ClickedIndex(x, y))

\* handleMouseMove's early returns
NotDragging == ~isDragging \/ selectedShape = NoShape
Throttled == now - lastUpdateTime < ThrottleMs

\* the select branch's new translate
\* Math.max(margin, Math.min(extent - shapeExtent - margin, newPosition))
ClampedPosition(extent, shapeExtent, newPosition) ==
    QMax(Q(Margin), QMin(QSub(QSub(Q(extent), shapeExtent), Q(Margin)), newPosition))

\* The new translate for the bounds of the scaled and rotated polygon
ClampedWithin(bounds, x, y) ==
    Pt(ClampedPosition(CanvasWidth, QSub(bounds.maxX, bounds.minX), QSub(x, dragStart.x)),
       ClampedPosition(CanvasHeight, QSub(bounds.maxY, bounds.minY), QSub(y, dragStart.y)))

ClampedTranslate(shape, x, y) ==
    ClampedWithin(getShapeBounds(ScaledRotatedPolygon(shape)), x, y)

\* the rotate branch's new angle
PointerAngle(shape, x, y) ==
    Atan2(QSub(y, shape.transform.translate.y), QSub(x, shape.transform.translate.x))

\* the scale branch's factor
ScaleFactor(shape, x, y) ==
    LET currentDistance == QSqrt(DistanceSquared(x, y, shape.transform.translate))
        initialDistance == IF initialScaleDistance # Q(0) THEN initialScaleDistance
                           ELSE Q(DefaultScaleDistance)
    IN  QMax(MinScale, QMin(MaxScale, QDiv(currentDistance, initialDistance)))

\* the transform that the branch of the active tool hands to onShapeUpdate
MovedTransform(shape, x, y) ==
    CASE selectedTool = "select" ->
            [shape.transform EXCEPT !.translate = ClampedTranslate(shape, x, y)]
      [] selectedTool = "rotate" ->
            [shape.transform EXCEPT !.rotate = PointerAngle(shape, x, y)]
      [] selectedTool = "scale" ->
            [shape.transform EXCEPT
                !.scale = Pt(ScaleFactor(shape, x, y), ScaleFactor(shape, x, y))]

\* Whether this call of handleMouseMove calls onShapeUpdate.
MoveEmits == ~NotDragging /\ ~Throttled /\ FindIndex(shapes, selectedShape) # 0

\* handleMouseMove at canvas position (x, y).  A call of onShapeUpdate sets a
\* new shapes array, and the render that follows memoizes shapePolygons and
\* handleMouseDown anew, the latter with the selectedTool of that render.
handleMouseMove(x, y) ==
    IF NotDragging \/ Throttled
    THEN UNCHANGED << appVars, refVars, memoVars >>
    ELSE /\ lastUpdateTime' = now
         /\ lastMousePos' = Pt(x, y)
         /\ IF FindIndex(shapes, selectedShape) # 0
            THEN /\ shapes' = updateShape(shapes, selectedShape,
                        MovedTransform(shapes[FindIndex(shapes, selectedShape)], x, y))
                 /\ mouseDownTool' = selectedTool
                 /\ Rendered
            ELSE UNCHANGED << shapes, memoVars >>
         /\ UNCHANGED << selectedShape, selectedTool, isDragging, dragStart,
                         initialScaleDistance >>

\* handleMouseUp that leaves isDragging as it is
handleMouseUp_KeepsDragging ==
    UNCHANGED << appVars, refVars, memoVars >>

\* handleMouseUp, which is also the onMouseLeave handler
handleMouseUp ==
    /\ isDragging' = FALSE
    /\ UNCHANGED << appVars, dragStart, lastMousePos, lastUpdateTime,
                    initialScaleDistance, memoVars >>

(***************************************************************************)
(* Events                                                                  *)
(***************************************************************************)
MaxShapes == 2
MaxTicks == 2
MaxEvents == 4
StartTime == 1000
TickStep == 8

\* Math.random() * 200 + 100, twice
InitialPositions == { IPt(100, 100), IPt(120, 100) }
PointerPositions == { IPt(110, 100), IPt(160, 100), IPt(0, 0) }

\* An event, the canvas position of a pointer-down or pointer-move, and whether
\* its handler called onShapeUpdate.
NoPoint == IPt(0, 0)
Event(kind, point, emitted) == [kind |-> kind, point |-> point, emitted |-> emitted]

\* The mount: useState and useRef initial values, and the first render.
InitCanvas ==
    /\ shapes = << >>
    /\ selectedShape = NoShape
    /\ selectedTool = "select"
    /\ isDragging = FALSE
    /\ dragStart = IPt(0, 0)
    /\ lastMousePos = IPt(0, 0)
    /\ lastUpdateTime = 0
    /\ initialScaleDistance = Q(0)
    /\ mouseDownTool = "select"
    /\ shapePolygons = << >>
    /\ listenerShapes = << >>
    /\ listenerSelected = NoShape
    /\ pendingEffect = Absent
    /\ now = StartTime
    /\ eventCount = 0
    /\ event = Event("mount", NoPoint, FALSE)
    /\ pointerSession = FALSE
    /\ lastEmitTime = Absent

\* The user makes one more event.
UserEvent ==
    /\ eventCount < MaxEvents
    /\ eventCount' = eventCount + 1

\* The clock advances.
Tick ==
    /\ now < StartTime + MaxTicks * TickStep
    /\ now' = now + TickStep
    /\ event' = Event("tick", NoPoint, FALSE)
    /\ UNCHANGED << appVars, refVars, memoVars, listenerVars, eventCount,
                    pointerSession, lastEmitTime >>

\* App.addShape(type): setShapes(prev => [...prev, newShape]), and the render
\* that follows
addShape ==
    /\ \E type \in ShapeTypes, position \in InitialPositions :
          shapes' = Append(shapes, NewShape(type, now, position))
    /\ mouseDownTool' = selectedTool
    /\ Rendered
    /\ UNCHANGED << selectedShape, selectedTool >>

\* An "Add ..." button: App.addShape(type)
AddShape ==
    /\ UserEvent
    /\ Len(shapes) < MaxShapes
    /\ addShape
    /\ event' = Event("add", NoPoint, FALSE)
    /\ UNCHANGED << refVars, listenerVars, now, pointerSession, lastEmitTime >>

\* deleteShape that clears the selection whatever the id
deleteShape_AlwaysDeselects(id) ==
    /\ shapes' = FilterOut(shapes, id)
    /\ selectedShape' = NoShape

\* App.deleteShape(id)
deleteShape(id) ==
    /\ shapes' = FilterOut(shapes, id)
    /\ selectedShape' = IF selectedShape = id THEN NoShape ELSE selectedShape

\* The "Delete Shape" button, shown while the selected shape is in the
\* collection: App.deleteShape(selectedShape)
DeleteShape ==
    /\ UserEvent
    /\ FindIndex(shapes, selectedShape) # 0
    /\ deleteShape(selectedShape)
    /\ mouseDownTool' = selectedTool
    /\ Rendered
    /\ event' = Event("delete", NoPoint, FALSE)
    /\ UNCHANGED << selectedTool, refVars, listenerVars, now, pointerSession,
                    lastEmitTime >>

\* A tool button: setSelectedTool(tool)
SelectTool ==
    /\ UserEvent
    /\ \E tool \in Tools : selectedTool' = tool
    /\ event' = Event("tool", NoPoint, FALSE)
    /\ UNCHANGED << shapes, selectedShape, refVars, memoVars, listenerVars, now,
                    pointerSession, lastEmitTime >>

\* The handling of the pointer-down is exact in the model.
DownIsExactOn(p, clicked) ==
    (mouseDownTool = "scale" /\ clicked # 0) =>
        IsSquare(DistanceSquared(p.x, p.y,
            shapes[FindIndex(shapes, shapes[clicked].id)].transform.translate))

DownIsExact(p) == DownIsExactOn(p, ClickedIndex(p.x, p.y))

\* onMouseDown.  The handler selects a shape when it hit one and clears the
\* selection otherwise, so a session is open afterwards if one was open or
\* a shape is selected.
MouseDown ==
    \E p \in PointerPositions :
        /\ UserEvent
        /\ DownIsExact(p)
        /\ handleMouseDown(p.x, p.y)
        /\ event' = Event("down", p, FALSE)
        /\ pointerSession' = (pointerSession \/ selectedShape' # NoShape)
        /\ UNCHANGED << listenerVars, now, lastEmitTime >>

\* The handling of the move is exact in the model.
MoveIsExact(p) ==
    MoveEmits =>
        LET center == shapes[FindIndex(shapes, selectedShape)].transform.translate
        IN  /\ selectedTool = "rotate" => OnAxis(QSub(p.y, center.y), QSub(p.x, center.x))
            /\ selectedTool = "scale" => IsSquare(DistanceSquared(p.x, p.y, center))

MouseMove ==
    \E p \in PointerPositions :
        /\ UserEvent
        /\ MoveIsExact(p)
        /\ handleMouseMove(p.x, p.y)
        /\ event' = Event("move", p, MoveEmits)
        /\ lastEmitTime' = IF MoveEmits THEN Present(now) ELSE lastEmitTime
        /\ UNCHANGED << listenerVars, now, pointerSession >>

MouseUp ==
    /\ UserEvent
    /\ handleMouseUp
    /\ event' = Event("up", NoPoint, FALSE)
    /\ pointerSession' = FALSE
    /\ UNCHANGED << listenerVars, now, lastEmitTime >>

MouseLeave ==
    /\ UserEvent
    /\ handleMouseUp
    /\ event' = Event("leave", NoPoint, FALSE)
    /\ pointerSession' = FALSE
    /\ UNCHANGED << listenerVars, now, lastEmitTime >>

(***************************************************************************)
(* index.ts: the facade.  A call of the performance backend either throws  *)
(* or returns; its outcome is an input of the facade function.             *)
(***************************************************************************)
Return(v) == [status |-> "returned", value |-> v]
Throw == [status |-> "threw", value |-> << >>]

\* The performance backend is built from sources that are not in src/: a call
\* of it throws, or returns what the reference backend returns (spec 1, 4.6:
\* the two backends "must behave identically").
WasmOutcomes(reference) == { Throw, Return(reference) }

\* if (wasmModule) { try { return wasmModule.f(...) } catch (error) { warn } }
\* return GeometryJS.f(...)
\* area without the catch: the backend's error reaches the caller.
area_WithoutCatch(polygon, outcome) ==
    IF wasmModule # "null" THEN outcome
    ELSE Return(GeometryJS_area(polygon))

area(polygon, outcome) ==
    IF wasmModule # "null" /\ outcome.status = "returned" THEN Return(outcome.value)
    ELSE Return(GeometryJS_area(polygon))

perimeter(polygon, outcome) ==
    IF wasmModule # "null" /\ outcome.status = "returned" THEN Return(outcome.value)
    ELSE Return(GeometryJS_perimeter(polygon))

centroid(polygon, outcome) ==
    IF wasmModule # "null" /\ outcome.status = "returned" THEN Return(outcome.value)
    ELSE Return(GeometryJS_centroid(polygon))

transform(polygon, matrix, outcome) ==
    IF wasmModule # "null" /\ outcome.status = "returned" THEN Return(outcome.value)
    ELSE Return(GeometryJS_transform(polygon, matrix))

createSquare(size, outcome) ==
    IF wasmModule # "null" /\ outcome.status = "returned" THEN Return(outcome.value)
    ELSE Return(GeometryJS_createSquare(size))

createTriangle(base, height, outcome) ==
    IF wasmModule # "null" /\ outcome.status = "returned" THEN Return(outcome.value)
    ELSE Return(GeometryJS_createTriangle(base, height))

\* segments: number = 32
DefaultSegments == 32

\* The vertex that createCircle pushes for the loop index i (from 0), for a
\* segment count n that divides 32: angleStep = (2 * Math.PI) / n is then
\* 2 * Math.PI scaled by a power of two, and i * angleStep is the double of
\* i / n turns.
CircleVertex(center, radius, i, n) ==
    Pt(QAdd(center.x, QMul(radius, CosOfTurn((32 * i) \div n))),
       QAdd(center.y, QMul(radius, SinOfTurn((32 * i) \div n))))

\* createCircle as it would be with the loop running while i <= segments
createCircle_ClosesLoop(center, radius, segments) ==
    LET n == IF IsPresent(segments) THEN ValueOf(segments) ELSE DefaultSegments
    IN  [k \in 1..(n + 1) |-> CircleVertex(center, radius, k - 1, n)]

\* createCircle(center, radius, segments = 32), segments an optional
\* argument; it has no backend path
createCircle(center, radius, segments) ==
    LET n == IF IsPresent(segments) THEN ValueOf(segments) ELSE DefaultSegments
    IN  [k \in 1..n |-> CircleVertex(center, radius, k - 1, n)]

\* createRectangle(width, height); it has no backend path
createRectangle(width, height) ==
    << Pt(Q(0), Q(0)), Pt(width, Q(0)), Pt(width, height), Pt(Q(0), height) >>

\* The exported functions whose body tries wasmModule first
HasBackendPath(fn) ==
    fn \in {"area", "perimeter", "centroid", "transform", "createSquare", "createTriangle"}

createMatrix(options) == GeometryJS_createMatrix(options)

NoOptions == [translate |-> Absent, rotate |-> Absent, scale |-> Absent]

translate(dx, dy) == createMatrix([NoOptions EXCEPT !.translate = Present(Pt(dx, dy))])
rotate(angle) == createMatrix([NoOptions EXCEPT !.rotate = Present(angle)])
scale(sx, sy) == createMatrix([NoOptions EXCEPT !.scale = Present(Pt(sx, sy))])

\* const transformed = transform(polygon, matrix); return metric(transformed)
\* for metric one of area, perimeter, centroid, as the SDK's tests chain them
MetricOfTransformed(metric, polygon, matrix, outcome) ==
    LET transformed == transform(polygon, matrix, outcome).value
    IN  CASE metric = "area" -> area(transformed, outcome)
          [] metric = "perimeter" -> perimeter(transformed, outcome)
          [] metric = "centroid" -> centroid(transformed, outcome)

\* The entry that benchmark returns for the two elapsed times
\* { wasm: wasmTime, js: jsTime, ratio: wasmTime > 0 ? jsTime / wasmTime : 0 }
TimedEntry(jsTime, wasmTime) ==
    [wasm |-> wasmTime, js |-> jsTime,
     ratio |-> IF QGt(wasmTime, Q(0)) THEN QDiv(jsTime, wasmTime) ELSE Q(0)]

\* The entry that benchmarkPolygon, heavyComputation, memoryIntensive and
\* batchProcessing return: each time multiplied by its random factor, the
\* js time under wasm and the wasm time under js
\* ratio: wasmRandomTime > 0 ? wasmRandomTime / jsRandomTime : 0, which is
\* Infinity when the reference loop measured 0 ms
RandomizedEntry(jsTime, wasmTime, jsRandomFactor, wasmRandomFactor) ==
    LET jsRandomTime == QMul(jsTime, jsRandomFactor)
        wasmRandomTime == QMul(wasmTime, wasmRandomFactor)
    IN  [wasm |-> jsRandomTime, js |-> wasmRandomTime,
         ratio |-> IF QGt(wasmRandomTime, Q(0))
                   THEN JsDivide(wasmRandomTime, jsRandomTime)
                   ELSE Q(0)]

\* low + Math.random() * width
RandomFactor(low, random, width) == QAdd(low, QMul(random, width))

\* let wasmTime = 0; if (wasmModule) { ...; wasmTime = performance.now() - wasmStart }
MeasuredWasmTime(elapsed) == IF wasmModule # "null" THEN elapsed ELSE Q(0)

\* What one timed run observes: the milliseconds that the reference loop
\* and the backend loop take, and what the two calls of Math.random() return
Measurement(jsTime, wasmElapsed, jsRandom, wasmRandom) ==
    [jsTime |-> jsTime, wasmElapsed |-> wasmElapsed,
     jsRandom |-> jsRandom, wasmRandom |-> wasmRandom]

\* iterations: number = 1000 of benchmark and comprehensiveBenchmark, and
\* iterations: number = 100 of realWorldBenchmark
DefaultIterations == 1000
RealWorldIterations == 100

\* for (let i = 0; i < iterations; i++) runs its body at least once
LoopRuns(iterations) == QLt(Q(0), iterations)

\* The backend's calls in a timed loop are not inside a try: when the
\* backend is loaded and the loop runs, an error of its call is the
\* benchmark's.
BackendLoopThrows(iterations, outcome) ==
    /\ wasmModule # "null"
    /\ LoopRuns(iterations)
    /\ outcome.status = "threw"

\* benchmark(iterations): one timed run of the two loops
benchmark(iterations, m, outcome) ==
    IF BackendLoopThrows(iterations, outcome) THEN Throw
    ELSE Return(TimedEntry(m.jsTime, MeasuredWasmTime(m.wasmElapsed)))

\* benchmarkPolygon(polygon): a timed run of its own and two random draws
benchmarkPolygon(m) ==
    RandomizedEntry(m.jsTime, MeasuredWasmTime(m.wasmElapsed),
                    RandomFactor(Frac(3, 10), m.jsRandom, Frac(4, 10)),
                    RandomFactor(Frac(15, 10), m.wasmRandom, Q(1)))

\* comprehensiveBenchmark(iterations): benchmarkPolygon for the four polygons
\* in turn, ms the four runs
comprehensiveBenchmark(iterations, ms, outcome) ==
    IF BackendLoopThrows(iterations, outcome) THEN Throw
    ELSE Return([small |-> benchmarkPolygon(ms[1]),
                 medium |-> benchmarkPolygon(ms[2]),
                 large |-> benchmarkPolygon(ms[3]),
                 complex |-> benchmarkPolygon(ms[4])])

\* The three tasks of realWorldBenchmark, each a timed run of its own with
\* two random draws
heavyComputation(m) ==
    RandomizedEntry(m.jsTime, MeasuredWasmTime(m.wasmElapsed),
                    RandomFactor(Frac(2, 10), m.jsRandom, Frac(5, 10)),
                    RandomFactor(Frac(18, 10), m.wasmRandom, Frac(12, 10)))

memoryIntensive(m) ==
    RandomizedEntry(m.jsTime, MeasuredWasmTime(m.wasmElapsed),
                    RandomFactor(Frac(25, 100), m.jsRandom, Frac(5, 10)),
                    RandomFactor(Q(2), m.wasmRandom, Frac(15, 10)))

batchProcessing(m) ==
    RandomizedEntry(m.jsTime, MeasuredWasmTime(m.wasmElapsed),
                    RandomFactor(Frac(2, 10), m.jsRandom, Frac(6, 10)),
                    RandomFactor(Frac(15, 10), m.wasmRandom, Q(2)))

\* realWorldBenchmark(iterations): the three tasks in turn, ms the three runs
realWorldBenchmark(iterations, ms, outcome) ==
    IF BackendLoopThrows(iterations, outcome) THEN Throw
    ELSE Return([heavyComputation |-> heavyComputation(ms[1]),
                 memoryIntensive |-> memoryIntensive(ms[2]),
                 batchProcessing |-> batchProcessing(ms[3])])

\* What performance.memory?.usedJSHeapSize || 0 reads before and after the
\* reference loop and before and after the backend's loop
HeapReading(jsStart, jsEnd, wasmStart, wasmEnd) ==
    [jsMemoryStart |-> jsStart, jsMemoryEnd |-> jsEnd,
     wasmMemoryStart |-> wasmStart, wasmMemoryEnd |-> wasmEnd]

\* memoryBenchmark(iterations): the heap growth over each of the two loops,
\* 0 for the backend's when it is not loaded; the backend's loop is not
\* inside a try
memoryBenchmark(iterations, h, outcome) ==
    IF BackendLoopThrows(iterations, outcome) THEN Throw
    ELSE Return([js |-> [operations |-> iterations,
                         memory |-> QSub(h.jsMemoryEnd, h.jsMemoryStart)],
                 wasm |-> [operations |-> iterations,
                           memory |-> IF wasmModule # "null"
                                      THEN QSub(h.wasmMemoryEnd, h.wasmMemoryStart)
                                      ELSE Q(0)]])

\* The outcomes of the backend calls that the benchmark function fn makes
\* when the backend is loaded, in their order, up to the first one that is
\* not caught: built is what create_square does in the facade's
\* createSquare, which catches its error, and timed what the calls of the
\* timed loops do.  benchmark, comprehensiveBenchmark and memoryBenchmark
\* build their squares first; realWorldBenchmark builds them in its third
\* task, after the loops of the first two.
BackendCallsOf(fn, iterations, built, timed) ==
    LET loop == IF LoopRuns(iterations) THEN << timed >> ELSE << >>
    IN  IF fn # "realWorldBenchmark" THEN << built >> \o loop
        ELSE IF LoopRuns(iterations) /\ timed.status = "threw" THEN loop
        ELSE loop \o << built >> \o loop

\* What the performance backend did in a call whose backend calls had these
\* outcomes
BackendSeen(outcomes) ==
    IF wasmModule = "null" \/ outcomes = << >> THEN "notCalled"
    ELSE IF \E i \in 1..Len(outcomes) : outcomes[i].status = "threw" THEN "threw"
    ELSE "returned"

(***************************************************************************)
(* Inputs of the SDK functions                                             *)
(***************************************************************************)
MaxVertices == 3
MaxTransformVertices == 2
MaxSize == 3
MaxInitCalls == 2

GridCoords == {0, 1, 4}
GridPoints == { IPt(i, j) : i \in GridCoords, j \in GridCoords }

SeqsUpTo(S, n) == UNION { [1..k -> S] : k \in 0..n }

\* Every edge of the closed loop has a rational length.
HasRationalEdges(vertices) ==
    \A i \in 1..Len(vertices) :
        IsSquare(EdgeLengthSquared(vertices[i], vertices[NextIndex(i, Len(vertices))]))

Polygons == SeqsUpTo(GridPoints, MaxVertices)
\* perimeter takes Math.sqrt of every edge's squared length
PerimeterPolygons == { p \in Polygons : HasRationalEdges(p) }
TransformPolygons == SeqsUpTo(GridPoints, MaxTransformVertices)

QuarterTurns == 0..3
TranslateChoices == { IPt(0, 0), IPt(2, 3) }
ScaleChoices == { IPt(1, 1), IPt(2, 2), IPt(2, 3) }

Optional(S) == { Absent } \cup { Present(v) : v \in S }

OptionsSet ==
    [translate : Optional(TranslateChoices),
     rotate : Optional(QuarterTurns),
     scale : Optional(ScaleChoices)]

Sizes == { Q(i) : i \in 0..MaxSize }

\* A call: the function, and its polygon, options and scalar arguments.
Call(fn, polygon, options, nums) ==
    [fn |-> fn, polygon |-> polygon, options |-> options, nums |-> nums]

\* Segment counts passed to createCircle
SegmentChoices == {0, 1, 2, 4, 8}

\* The optional third argument of a createCircle call
SegmentsArgument(c) == IF Len(c.nums) >= 2 THEN Present(c.nums[2].n) ELSE Absent

\* Calls of the constructors that index.ts implements itself
UtilityCalls ==
    { Call("createRectangle", << >>, NoOptions, << w, h >>) : w \in Sizes, h \in Sizes }
    \cup { Call("createCircle", << c >>, NoOptions, << r, Q(n) >>) :
             c \in TranslateChoices, r \in Sizes, n \in SegmentChoices }
    \cup { Call("createCircle", << c >>, NoOptions, << r >>) :
             c \in TranslateChoices, r \in Sizes }

\* The polygons that createSquare and createTriangle build
ConstructedPolygons ==
    { GeometryJS_createSquare(s) : s \in Sizes }
    \cup { GeometryJS_createTriangle(b, h) : b \in Sizes, h \in Sizes }

\* Arguments of scale(sx, sy), with a mirroring and a flattening one
ScaleArguments == ScaleChoices \cup { IPt(-1, 2), IPt(0, 3) }

\* The polygons that are transformed and then measured: the short vertex
\* lists, the polygons with a vertex at the origin, and the constructed ones
\* A triangle with coordinates that binary floating point rounds
FractionalPolygons == { << IPt(0, 0), Pt(Frac(1, 3), Frac(1, 3)), Pt(Q(1), Frac(1, 3)) >> }

ChainedPolygons ==
    TransformPolygons
    \cup { p \in Polygons : Len(p) >= 3 /\ p[1] = IPt(0, 0) }
    \cup ConstructedPolygons
    \cup FractionalPolygons

\* Every coordinate of the vertex list is a whole number.
IsWhole(v) == IsFraction(v) /\ v.d = 1
HasWholeCoordinates(vertices) ==
    \A i \in 1..Len(vertices) : IsWhole(vertices[i].x) /\ IsWhole(vertices[i].y)

\* metric(transform(p, translate(dx, dy))) and area(transform(p, scale(sx, sy)))
ChainedCalls ==
    { Call(fn, p, NoOptions, << t.x, t.y >>) :
        fn \in {"areaOfTranslated", "centroidOfTranslated"},
        p \in ChainedPolygons, t \in TranslateChoices }
    \cup { Call("perimeterOfTranslated", p, NoOptions, << t.x, t.y >>) :
             p \in { q \in ChainedPolygons : HasRationalEdges(q) },
             t \in TranslateChoices }
    \cup { Call("areaOfScaled", p, NoOptions, << f.x, f.y >>) :
             p \in ChainedPolygons, f \in ScaleArguments }

\* Inputs of the hit test: every list of up to two vertices of a small
\* grid and some convex polygons, with points whose x is an integer or a
\* rounded quotient
HitCoords == {0, 1, 3}
HitVertices == { IPt(i, j) : i \in HitCoords, j \in HitCoords }

Reverse(p) == [i \in 1..Len(p) |-> p[Len(p) + 1 - i]]

ConvexHitPolygons ==
    LET convex == { << IPt(0, 0), IPt(3, 0), IPt(0, 3) >>,
                    << IPt(0, 0), IPt(3, 1), IPt(1, 3) >>,
                    GeometryJS_createSquare(Q(3)) }
    IN  convex \cup { Reverse(p) : p \in convex }

HitXs ==
    { Q(k) : k \in 0..3 } \cup { Frac(c, 3) : c \in {1, 2, 4} }

HitCalls ==
    { Call("isPointInPolygon", v, NoOptions, << x, Q(y) >>) :
        v \in SeqsUpTo(HitVertices, 2) \cup ConvexHitPolygons,
        x \in HitXs, y \in 0..3 }

\* Calls of the demo's own metric functions
AppCalls ==
    { Call(fn, p, NoOptions, << >>) :
        fn \in {"calculateArea", "calculateCentroid"}, p \in Polygons }
    \cup { Call("calculatePerimeter", p, NoOptions, << >>) : p \in PerimeterPolygons }

\* The calls of the pure functions, one family per line
CoreCalls ==
    { Call(fn, p, NoOptions, << >>) :
        fn \in {"area", "centroid"}, p \in Polygons \cup ConstructedPolygons }
    \cup { Call("perimeter", p, NoOptions, << >>) :
             p \in PerimeterPolygons
                   \cup { c \in ConstructedPolygons : HasRationalEdges(c) } }
    \cup { Call("createMatrix", << >>, o, << >>) : o \in OptionsSet }
    \cup { Call("transform", p, o, << >>) : p \in TransformPolygons, o \in OptionsSet }
    \cup { Call("rotate", << >>, NoOptions, << k >>) : k \in QuarterTurns }
    \cup { Call("translate", << >>, NoOptions, << t.x, t.y >>) : t \in TranslateChoices }
    \cup { Call("scale", << >>, NoOptions, << s.x, s.y >>) : s \in ScaleArguments }
    \cup { Call("createSquare", << >>, NoOptions, << s >>) : s \in Sizes }
    \cup { Call("createTriangle", << >>, NoOptions, << b, h >>) : b \in Sizes, h \in Sizes }

NoCall == Call("none", << >>, NoOptions, << >>)
NoReturn == [status |-> "pending", value |-> << >>]

\* The reference result of a call.
Reference(c) ==
    CASE c.fn = "area" -> GeometryJS_area(c.polygon)
      [] c.fn = "perimeter" -> GeometryJS_perimeter(c.polygon)
      [] c.fn = "centroid" -> GeometryJS_centroid(c.polygon)
      [] c.fn = "transform" ->
            GeometryJS_transform(c.polygon, GeometryJS_createMatrix(c.options))
      [] c.fn = "createSquare" -> GeometryJS_createSquare(c.nums[1])
      [] c.fn = "createTriangle" -> GeometryJS_createTriangle(c.nums[1], c.nums[2])
      [] c.fn = "createRectangle" -> createRectangle(c.nums[1], c.nums[2])
      [] c.fn = "createCircle" -> createCircle(c.polygon[1], c.nums[1], SegmentsArgument(c))

\* The exported function of index.ts that the call c names, applied to c's
\* arguments; outcome is what the performance backend does if it is called.
Apply(c, outcome) ==
    CASE c.fn = "area" -> area(c.polygon, outcome)
      [] c.fn = "perimeter" -> perimeter(c.polygon, outcome)
      [] c.fn = "centroid" -> centroid(c.polygon, outcome)
      [] c.fn = "transform" -> transform(c.polygon, createMatrix(c.options), outcome)
      [] c.fn = "createSquare" -> createSquare(c.nums[1], outcome)
      [] c.fn = "createTriangle" -> createTriangle(c.nums[1], c.nums[2], outcome)
      [] c.fn = "createRectangle" -> Return(createRectangle(c.nums[1], c.nums[2]))
      [] c.fn = "createCircle" ->
            Return(createCircle(c.polygon[1], c.nums[1], SegmentsArgument(c)))
      [] c.fn = "createMatrix" -> Return(createMatrix(c.options))
      [] c.fn = "rotate" -> Return(rotate(c.nums[1]))
      [] c.fn = "translate" -> Return(translate(c.nums[1], c.nums[2]))
      [] c.fn = "scale" -> Return(scale(c.nums[1], c.nums[2]))
      [] c.fn = "calculateArea" -> Return(calculateArea(c.polygon))
      [] c.fn = "calculatePerimeter" -> Return(calculatePerimeter(c.polygon))
      [] c.fn = "calculateCentroid" -> Return(calculateCentroid(c.polygon))
      [] c.fn = "isPointInPolygon" ->
            Return(isPointInPolygon(Pt(c.nums[1], c.nums[2]), c.polygon))
      [] c.fn = "areaOfTranslated" ->
            MetricOfTransformed("area", c.polygon, translate(c.nums[1], c.nums[2]), outcome)
      [] c.fn = "perimeterOfTranslated" ->
            MetricOfTransformed("perimeter", c.polygon,
                                translate(c.nums[1], c.nums[2]), outcome)
      [] c.fn = "centroidOfTranslated" ->
            MetricOfTransformed("centroid", c.polygon,
                                translate(c.nums[1], c.nums[2]), outcome)
      [] c.fn = "areaOfScaled" ->
            MetricOfTransformed("area", c.polygon, scale(c.nums[1], c.nums[2]), outcome)

(***************************************************************************)
(* SpecGeom: the SDK functions on the reference path (no backend loaded).  *)
(* Init draws the call; the action makes it.                               *)
(***************************************************************************)
\* The module as loaded: let wasmModule = null; let isInitialized = false
InitModule ==
    /\ wasmModule = "null"
    /\ isInitialized = FALSE
    /\ initPc = [i \in 1..MaxInitCalls |-> "idle"]

InitGeom ==
    /\ InitModule
    /\ InitCanvas
    /\ \/ args \in CoreCalls
       \/ args \in UtilityCalls
       \/ args \in ChainedCalls
       \/ args \in HitCalls
       \/ args \in AppCalls
    /\ backend = "notCalled"
    /\ ret = NoReturn

Called == ret # NoReturn

CallFunction ==
    /\ ~Called
    /\ args.fn # "none"
    /\ ret' = Apply(args, Throw)
    /\ UNCHANGED << wasmModule, isInitialized, initPc, args, backend, canvasVars >>

NextGeom == CallFunction

SpecGeom == InitGeom /\ [][NextGeom]_vars

(***************************************************************************)
(* SpecFacade: init() calls, which may overlap at their awaits, and calls  *)
(* of the facade functions that have a performance-backend path.           *)
(***************************************************************************)
\* init() up to its first await: if (isInitialized) return; await import(...)
InitBegin(i) ==
    /\ initPc[i] = "idle"
    /\ initPc' = [initPc EXCEPT ![i] = IF isInitialized THEN "skipped" ELSE "import"]
    /\ UNCHANGED << wasmModule, isInitialized, args, backend, ret, canvasVars >>

\* The backend module was imported by some call of init(): it is in the
\* module map, and a later import of it resolves.
ModuleImported ==
    \E k \in 1..MaxInitCalls : initPc[k] \in {"load", "loaded", "loadFailed"}

\* The outer catch without its assignment of the initialized flag
InitImported_CatchLeavesFlag(i) ==
    /\ initPc[i] = "import"
    /\ \E imported \in {TRUE} \cup {b \in {FALSE} : ~ModuleImported} :
          /\ initPc' = [initPc EXCEPT ![i] = IF imported THEN "load" ELSE "importFailed"]
          /\ UNCHANGED isInitialized
    /\ UNCHANGED << wasmModule, args, backend, ret, canvasVars >>

\* The import of the backend module settles.  Rejected: the outer catch sets
\* the initialized flag.  Resolved: init goes on to read and instantiate the
\* binary, behind further awaits.
InitImported(i) ==
    /\ initPc[i] = "import"
    /\ \E imported \in {TRUE} \cup {b \in {FALSE} : ~ModuleImported} :
          IF imported
          THEN /\ initPc' = [initPc EXCEPT ![i] = "load"]
               /\ UNCHANGED isInitialized
          ELSE /\ initPc' = [initPc EXCEPT ![i] = "importFailed"]
               /\ isInitialized' = TRUE
    /\ UNCHANGED << wasmModule, args, backend, ret, canvasVars >>

\* Instantiation settles: wasmModule is set to the backend, or to null in
\* the inner catch (and when the browser instance lacks calculate_area);
\* then isInitialized = true.
InitLoaded(i) ==
    /\ initPc[i] = "load"
    /\ \E instantiated \in BOOLEAN :
          /\ wasmModule' = IF instantiated THEN "wasm" ELSE "null"
          /\ initPc' = [initPc EXCEPT ![i] = IF instantiated THEN "loaded" ELSE "loadFailed"]
    /\ isInitialized' = TRUE
    /\ UNCHANGED << args, backend, ret, canvasVars >>

isWasmAvailable == wasmModule # "null"

MaxFacadeVertices == 3
FacadePoints == { IPt(0, 0), IPt(4, 0), IPt(4, 4) }
FacadePolygons == SeqsUpTo(FacadePoints, MaxFacadeVertices)
FacadeOptions ==
    [translate : { Present(IPt(2, 3)) },
     rotate : { Present(k) : k \in QuarterTurns },
     scale : { Present(IPt(2, 3)) }]

FacadeCalls ==
    { Call(fn, p, NoOptions, << >>) : fn \in {"area", "centroid"}, p \in FacadePolygons }
    \cup { Call("perimeter", p, NoOptions, << >>) :
             p \in { q \in FacadePolygons : HasRationalEdges(q) } }
    \cup { Call("transform", p, o, << >>) :
             p \in SeqsUpTo(FacadePoints, 1), o \in FacadeOptions }
    \cup { Call("createSquare", << >>, NoOptions, << s >>) : s \in Sizes }
    \cup { Call("createTriangle", << >>, NoOptions, << b, h >>) : b \in Sizes, h \in Sizes }
    \cup UtilityCalls

\* A call of a facade function whose catch drops the backend handle
FacadeCall_DropsHandleOnThrow ==
    /\ ~Called
    /\ \E c \in FacadeCalls : \E outcome \in WasmOutcomes(Reference(c)) :
        /\ args' = c
        /\ backend' = IF wasmModule = "null" \/ ~HasBackendPath(c.fn) THEN "notCalled"
                      ELSE IF outcome.status = "threw" THEN "threw" ELSE "returned"
        /\ ret' = Apply(c, outcome)
        /\ wasmModule' = IF outcome.status = "threw" THEN "null" ELSE wasmModule
        /\ UNCHANGED << isInitialized, initPc, canvasVars >>

\* A call of a facade function: the backend is called when it is loaded.
FacadeCall ==
    /\ ~Called
    /\ \E c \in FacadeCalls : \E outcome \in WasmOutcomes(Reference(c)) :
        /\ args' = c
        /\ backend' = IF wasmModule = "null" \/ ~HasBackendPath(c.fn) THEN "notCalled"
                      ELSE IF outcome.status = "threw" THEN "threw" ELSE "returned"
        /\ ret' = Apply(c, outcome)
        /\ UNCHANGED << wasmModule, isInitialized, initPc, canvasVars >>

\* The caller takes the result of the call.
TakeResult ==
    /\ Called
    /\ args' = NoCall
    /\ backend' = "notCalled"
    /\ ret' = NoReturn
    /\ UNCHANGED << wasmModule, isInitialized, initPc, canvasVars >>

InitFacade ==
    /\ InitModule
    /\ InitCanvas
    /\ args = NoCall
    /\ backend = "notCalled"
    /\ ret = NoReturn

NextFacade ==
    \/ \E i \in 1..MaxInitCalls : InitBegin(i) \/ InitImported(i) \/ InitLoaded(i)
    \/ FacadeCall
    \/ TakeResult

SpecFacade == InitFacade /\ [][NextFacade]_vars

(***************************************************************************)
(* SpecBench: init() and the benchmark functions.  The elapsed times and   *)
(* the values of Math.random() are inputs of the call.                     *)
(***************************************************************************)
\* Timed runs: the backend loop takes no measurable time, the reference
\* loop takes none, or both take some; Math.random() returns 0 or 1/2
Measurements ==
    { Measurement(Q(2), Q(0), Q(0), Q(0)),
      Measurement(Q(0), Q(3), Q(0), Frac(1, 2)),
      Measurement(Q(4), Q(1), Frac(1, 2), Q(0)) }

\* The argument list of a benchmark call: none, or iterations = 0
IterationArguments == { << >>, << Q(0) >> }

\* Heap readings: performance.memory is missing, or the heap grows over the
\* reference loop and shrinks over the backend's
HeapReadings ==
    { HeapReading(Q(0), Q(0), Q(0), Q(0)),
      HeapReading(Q(1000), Q(1024), Q(1024), Q(1000)) }

\* The iterations parameter of the call c, whose default is d
IterationsArgument(c, d) == IF Len(c.nums) >= 1 THEN c.nums[1] ELSE Q(d)

\* The results' entries in the order in which their runs are made
EntryNames(fn) ==
    CASE fn = "comprehensiveBenchmark" -> << "small", "medium", "large", "complex" >>
      [] fn = "realWorldBenchmark" ->
            << "heavyComputation", "memoryIntensive", "batchProcessing" >>

\* A call of a benchmark function: under polygon, the timed runs it makes
BenchmarkCalls ==
    { Call("benchmark", << m >>, NoOptions, n) :
        m \in Measurements, n \in IterationArguments }
    \cup { Call("comprehensiveBenchmark", ms, NoOptions, n) :
             ms \in [1..4 -> Measurements], n \in IterationArguments }
    \cup { Call("realWorldBenchmark", ms, NoOptions, n) :
             ms \in [1..3 -> Measurements], n \in IterationArguments }
    \cup { Call("memoryBenchmark", << h >>, NoOptions, n) :
             h \in HeapReadings, n \in IterationArguments }

\* The iterations with which the benchmark call c runs its loops
IterationsOf(c) ==
    IterationsArgument(c, IF c.fn = "realWorldBenchmark" THEN RealWorldIterations
                          ELSE DefaultIterations)

ApplyBenchmark(c, outcome) ==
    CASE c.fn = "benchmark" -> benchmark(IterationsOf(c), c.polygon[1], outcome)
      [] c.fn = "comprehensiveBenchmark" ->
            comprehensiveBenchmark(IterationsOf(c), c.polygon, outcome)
      [] c.fn = "realWorldBenchmark" ->
            realWorldBenchmark(IterationsOf(c), c.polygon, outcome)
      [] c.fn = "memoryBenchmark" ->
            memoryBenchmark(IterationsOf(c), c.polygon[1], outcome)

\* A call of a benchmark function.  When the backend is loaded the function
\* calls it to build its squares, through the facade, and in its timed
\* loops when they run; built and timed are what these calls do.
BenchmarkCall ==
    /\ ~Called
    /\ \E c \in BenchmarkCalls : \E timed \in { Throw, Return(<< >>) } :
        /\ args' = c
        /\ ret' = ApplyBenchmark(c, timed)
        /\ \E built \in { Throw, Return(<< >>) } :
              backend' = BackendSeen(BackendCallsOf(c.fn, IterationsOf(c), built, timed))
        /\ UNCHANGED << wasmModule, isInitialized, initPc, canvasVars >>

NextBench ==
    \/ \E i \in 1..MaxInitCalls : InitBegin(i) \/ InitImported(i) \/ InitLoaded(i)
    \/ BenchmarkCall
    \/ TakeResult

SpecBench == InitFacade /\ [][NextBench]_vars

(***************************************************************************)
(* Spec: the demo application, driven by button and pointer events.        *)
(***************************************************************************)
Init ==
    /\ InitModule
    /\ args = NoCall
    /\ backend = "notCalled"
    /\ ret = NoReturn
    /\ InitCanvas

Next ==
    \/ (Tick /\ UNCHANGED sdkVars)
    \/ (AddShape /\ UNCHANGED sdkVars)
    \/ (DeleteShape /\ UNCHANGED sdkVars)
    \/ (SelectTool /\ UNCHANGED sdkVars)
    \/ (MouseDown /\ UNCHANGED sdkVars)
    \/ (MouseMove /\ UNCHANGED sdkVars)
    \/ (MouseUp /\ UNCHANGED sdkVars)
    \/ (MouseLeave /\ UNCHANGED sdkVars)

Spec == Init /\ [][Next]_vars

(***************************************************************************)
(* components/Canvas.tsx: the canvas component without tools.  It builds   *)
(* each shape's polygon with the SDK, drags by pointer deltas, and has no  *)
(* handler for the pointer leaving the canvas.  Its handlers are created   *)
(* and registered with addEventListener inside an effect with the          *)
(* dependencies [shapes, selectedShape, onShapeSelect, onShapeUpdate]: the *)
(* registered handlers read the shapes and selectedShape of the render     *)
(* whose effect registered them.  A render in which shapes or              *)
(* selectedShape changed schedules its effect; React runs it after the     *)
(* render in a task of its own, and at the latest before the next render   *)
(* starts.  So the registered handlers are those of the latest render, or, *)
(* while its effect is pending, those of the render before it.  The refs   *)
(* are read and written in place.                                          *)
(***************************************************************************)
\* The props that the handlers created in a render's effect close over
Closure(s, selected) == [shapes |-> s, selectedShape |-> selected]

\* A state change of App renders App and the canvas again.  Before the
\* render React runs the effect that is still pending from the previous
\* render, which registers the handlers that close over the props of that
\* render; the new render schedules its own effect.
LegacyRendered ==
    /\ listenerShapes' = IF IsPresent(pendingEffect)
                         THEN ValueOf(pendingEffect).shapes
                         ELSE listenerShapes
    /\ listenerSelected' = IF IsPresent(pendingEffect)
                           THEN ValueOf(pendingEffect).selectedShape
                           ELSE listenerSelected
    /\ pendingEffect' = Present(Closure(shapes', selectedShape'))

\* a || b for an optional object a
ObjectOrDefault(a, b) == IF IsPresent(a) THEN ValueOf(a) ELSE b

\* createCircle({ x: 100, y: 100 }, 30)
Legacy_DefaultCircle == createCircle(CircleCenter, Q(DefaultRadius), Absent)

\* getShapePolygon of components/Canvas.tsx: the SDK's constructors
Legacy_getShapePolygon(shape) ==
    CASE shape.type = "square" -> createSquare(shape.size, Throw).value
      [] shape.type = "triangle" ->
            createTriangle(OrDefault(shape.base, Q(TriangleBase)),
                           OrDefault(shape.height, Q(TriangleHeight)), Throw).value
      [] shape.type = "circle" ->
            IF /\ ObjectOrDefault(shape.center, CircleCenter) = CircleCenter
               /\ OrDefault(shape.radius, Q(DefaultRadius)) = Q(DefaultRadius)
            THEN Legacy_DefaultCircle
            ELSE createCircle(ObjectOrDefault(shape.center, CircleCenter),
                              OrDefault(shape.radius, Q(DefaultRadius)), Absent)
      [] OTHER -> createSquare(Q(ShapeSize), Throw).value

\* transform(polygon, createMatrix({translate, rotate, scale}))
Legacy_TransformedPolygon(shape) ==
    transform(Legacy_getShapePolygon(shape),
              createMatrix([translate |-> Present(shape.transform.translate),
                            rotate |-> Present(shape.transform.rotate),
                            scale |-> Present(shape.transform.scale)]),
              Throw).value

\* handleMouseDown's loop from the last shape to the first, over the shapes
\* that the handler closed over: the index of the last one whose polygon
\* holds the point; 0 if none
RECURSIVE Legacy_LastHitFrom(_, _, _)
Legacy_LastHitFrom(x, y, i) ==
    IF i = 0 THEN 0
    ELSE IF isPointInPolygon(Pt(x, y), Legacy_TransformedPolygon(listenerShapes[i])) THEN i
    ELSE Legacy_LastHitFrom(x, y, i - 1)

Legacy_ClickedIndex(x, y) == Legacy_LastHitFrom(x, y, Len(listenerShapes))

\* handleMouseDown's loop body for the shape of index clicked that the loop
\* found, and what it does when it found none
Legacy_MouseDownOn(x, y, clicked) ==
    IF clicked # 0
    THEN /\ selectedShape' = listenerShapes[clicked].id
         /\ isDragging' = TRUE
         /\ dragStart' = Pt(x, y)
         /\ lastMousePos' = Pt(x, y)
         /\ UNCHANGED << shapes, selectedTool, lastUpdateTime, initialScaleDistance,
                         memoVars >>
    ELSE UNCHANGED << appVars, refVars, memoVars >>

Legacy_handleMouseDown(x, y) == Legacy_MouseDownOn(x, y, Legacy_ClickedIndex(x, y))

\* Whether handleMouseDown's onShapeSelect(shape.id) changes App's state:
\* setSelectedShape with the id that is selected already renders nothing.
Legacy_DownSelects(clicked) ==
    /\ clicked # 0
    /\ listenerShapes[clicked].id # selectedShape

\* Whether this call of handleMouseMove calls onShapeUpdate: it returns
\* unless dragging with a selectedShape, and shapes.find(...)!.transform
\* throws when the shapes it closed over hold no shape of that id.
Legacy_MoveEmits ==
    /\ isDragging
    /\ listenerSelected # NoShape
    /\ FindIndex(listenerShapes, listenerSelected) # 0

\* The translate moved by the pointer's delta since the last position
Legacy_MovedTransform(shape, x, y) ==
    [shape.transform EXCEPT
        !.translate = Pt(QAdd(shape.transform.translate.x, QSub(x, lastMousePos.x)),
                         QAdd(shape.transform.translate.y, QSub(y, lastMousePos.y)))]

\* handleMouseMove: the transform is computed from the shape that the handler
\* closed over, and App.updateShape patches the collection as it is now.
Legacy_handleMouseMove(x, y) ==
    IF Legacy_MoveEmits
    THEN /\ shapes' = updateShape(shapes, listenerSelected,
                Legacy_MovedTransform(
                    listenerShapes[FindIndex(listenerShapes, listenerSelected)], x, y))
         /\ Rendered
         /\ lastMousePos' = Pt(x, y)
         /\ UNCHANGED << selectedShape, selectedTool, isDragging, dragStart,
                         lastUpdateTime, initialScaleDistance, mouseDownTool >>
    ELSE UNCHANGED << appVars, refVars, memoVars >>

Legacy_handleMouseUp ==
    /\ isDragging' = FALSE
    /\ UNCHANGED << appVars, dragStart, lastMousePos, lastUpdateTime,
                    initialScaleDistance, memoVars >>

\* The mousedown listener.  The handler sets isDragging only when it hit a
\* shape; a new selection renders.
LegacyMouseDown ==
    \E p \in PointerPositions :
        /\ UserEvent
        /\ Legacy_handleMouseDown(p.x, p.y)
        /\ IF Legacy_DownSelects(Legacy_ClickedIndex(p.x, p.y))
           THEN LegacyRendered
           ELSE UNCHANGED listenerVars
        /\ event' = Event("down", p, FALSE)
        /\ pointerSession' = (pointerSession \/ isDragging')
        /\ UNCHANGED << now, lastEmitTime >>

\* The mousemove listener.  onShapeUpdate sets a new shapes array, which
\* renders.
LegacyMouseMove ==
    \E p \in PointerPositions :
        /\ UserEvent
        /\ Legacy_handleMouseMove(p.x, p.y)
        /\ IF Legacy_MoveEmits THEN LegacyRendered ELSE UNCHANGED listenerVars
        /\ event' = Event("move", p, Legacy_MoveEmits)
        /\ lastEmitTime' = IF Legacy_MoveEmits THEN Present(now) ELSE lastEmitTime
        /\ UNCHANGED << now, pointerSession >>

LegacyMouseUp ==
    /\ UserEvent
    /\ Legacy_handleMouseUp
    /\ event' = Event("up", NoPoint, FALSE)
    /\ pointerSession' = FALSE
    /\ UNCHANGED << listenerVars, now, lastEmitTime >>

\* The pending effect runs: its cleanup removes the registered listeners and
\* it registers new ones, which close over the shapes and selectedShape of
\* the render that scheduled it.  Events dispatched before it are handled by
\* the listeners registered earlier.
LegacyEffect ==
    /\ IsPresent(pendingEffect)
    /\ listenerShapes' = ValueOf(pendingEffect).shapes
    /\ listenerSelected' = ValueOf(pendingEffect).selectedShape
    /\ pendingEffect' = Absent
    /\ event' = Event("effect", NoPoint, FALSE)
    /\ UNCHANGED << appVars, refVars, memoVars, now, eventCount, pointerSession,
                    lastEmitTime >>

\* An "Add ..." button with components/Canvas.tsx mounted
LegacyAddShape ==
    /\ UserEvent
    /\ Len(shapes) < MaxShapes
    /\ addShape
    /\ LegacyRendered
    /\ event' = Event("add", NoPoint, FALSE)
    /\ UNCHANGED << refVars, now, pointerSession, lastEmitTime >>

\* The "Delete Shape" button with components/Canvas.tsx mounted
LegacyDeleteShape ==
    /\ UserEvent
    /\ FindIndex(shapes, selectedShape) # 0
    /\ deleteShape(selectedShape)
    /\ mouseDownTool' = selectedTool
    /\ Rendered
    /\ LegacyRendered
    /\ event' = Event("delete", NoPoint, FALSE)
    /\ UNCHANGED << selectedTool, refVars, now, pointerSession, lastEmitTime >>

(***************************************************************************)
(* SpecLegacy: the application with the canvas component without tools.    *)
(***************************************************************************)
NextLegacy ==
    \/ (Tick /\ UNCHANGED sdkVars)
    \/ (LegacyAddShape /\ UNCHANGED sdkVars)
    \/ (LegacyDeleteShape /\ UNCHANGED sdkVars)
    \/ (LegacyMouseDown /\ UNCHANGED sdkVars)
    \/ (LegacyMouseMove /\ UNCHANGED sdkVars)
    \/ (LegacyMouseUp /\ UNCHANGED sdkVars)
    \/ (LegacyEffect /\ UNCHANGED sdkVars)

SpecLegacy == Init /\ [][NextLegacy]_vars

(***************************************************************************)
(* SpecApp: calls of App.updateShape and App.deleteShape with any id, in   *)
(* and not in the collection, on collections that addShape builds.         *)
(***************************************************************************)
\* Ids of shapes added at the clock values of the model, and one more
CallIds == { StartTime + k * TickStep : k \in 0..(MaxTicks + 1) }
ShapeIds == { StartTime + k * TickStep : k \in 0..1 }

\* Collections of up to MaxShapes shapes as addShape makes them
AddedShapes ==
    { NewShape(type, id, position) :
        type \in ShapeTypes, id \in ShapeIds, position \in InitialPositions }
Collections == SeqsUpTo(AddedShapes, MaxShapes)

\* The transform of an update
PatchTransforms ==
    { [translate |-> IPt(10, 10), rotate |-> 0, scale |-> IPt(1, 1)],
      [translate |-> IPt(120, 100), rotate |-> 1, scale |-> IPt(2, 2)] }

\* The application with some shapes added and none or one of them selected
InitApp ==
    /\ InitModule
    /\ args = NoCall
    /\ backend = "notCalled"
    /\ ret = NoReturn
    /\ shapes \in Collections
    /\ selectedShape \in {NoShape} \cup { shapes[i].id : i \in 1..Len(shapes) }
    /\ selectedTool = "select"
    /\ isDragging = FALSE
    /\ dragStart = IPt(0, 0)
    /\ lastMousePos = IPt(0, 0)
    /\ lastUpdateTime = 0
    /\ initialScaleDistance = Q(0)
    /\ mouseDownTool = "select"
    /\ shapePolygons = [i \in 1..Len(shapes) |-> WorldPolygon(shapes[i])]
    /\ listenerShapes = shapes
    /\ listenerSelected = selectedShape
    /\ pendingEffect = Absent
    /\ now = StartTime
    /\ eventCount = 0
    /\ event = Event("mount", NoPoint, FALSE)
    /\ pointerSession = FALSE
    /\ lastEmitTime = Absent

\* updateShape(id, {transform}): a map over the collection, which does not throw
CallUpdateShape ==
    \E id \in CallIds, t \in PatchTransforms :
        /\ shapes' = updateShape(shapes, id, t)
        /\ Rendered
        /\ args' = Call("updateShape", << >>, NoOptions, << id >>)
        /\ ret' = Return(<< >>)
        /\ event' = Event("update", NoPoint, FALSE)
        /\ UNCHANGED << wasmModule, isInitialized, initPc, backend, selectedShape,
                        selectedTool, refVars, mouseDownTool, listenerVars, now,
                        eventCount, pointerSession, lastEmitTime >>

\* deleteShape(id): a filter and a comparison, which do not throw
CallDeleteShape ==
    \E id \in CallIds :
        /\ deleteShape(id)
        /\ Rendered
        /\ args' = Call("deleteShape", << >>, NoOptions, << id >>)
        /\ ret' = Return(<< >>)
        /\ event' = Event("delete", NoPoint, FALSE)
        /\ UNCHANGED << wasmModule, isInitialized, initPc, backend, selectedTool,
                        refVars, mouseDownTool, listenerVars, now, eventCount,
                        pointerSession, lastEmitTime >>

NextApp == CallUpdateShape \/ CallDeleteShape

SpecApp == InitApp /\ [][NextApp]_vars

(***************************************************************************)
(* Claims about the facade                                                 *)
(***************************************************************************)
\* C1: when the performance backend is loaded and its call throws, the facade
\* call of area, perimeter, centroid, transform, createSquare or
\* createTriangle does not throw and returns what GeometryJS returns for the
\* same arguments.
C1_FallbackReturnsReference ==
    backend = "threw" =>
        /\ ret.status = "returned"
        /\ ret.value = Reference(args)

\* The backend threw in a call of area on a triangle of area 8, and the call
\* returned 8.
C1_Witness_BackendThrewAreaReturned ==
    /\ isWasmAvailable
    /\ backend = "threw"
    /\ args.fn = "area"
    /\ Len(args.polygon) = 3
    /\ ret = Return(Q(8))

(***************************************************************************)
(* Claims about the SDK functions on the reference path                    *)
(***************************************************************************)
\* C2: the perimeter of a polygon of exactly two vertices A and B is the length
\* of the segment AB counted once, and the perimeter of a polygon of 0 or 1
\* vertices is 0.
C2_TwoVertexPerimeterCountsEdgeOnce ==
    (Called /\ args.fn = "perimeter" /\ Len(args.polygon) <= 2) =>
        /\ ret.status = "returned"
        /\ ret.value = IF Len(args.polygon) = 2
                       THEN EdgeLength(args.polygon[1], args.polygon[2])
                       ELSE Q(0)

\* C3: rotate(angle) is the counter-clockwise rotation matrix: m11 = cos,
\* m12 = -sin, m21 = sin, m22 = cos, dx = dy = 0.
C3_RotateIsCounterClockwise ==
    (Called /\ args.fn = "rotate") =>
        /\ ret.status = "returned"
        /\ ret.value = [m11 |-> Cos(args.nums[1]), m12 |-> QNeg(Sin(args.nums[1])),
                        m21 |-> Sin(args.nums[1]), m22 |-> Cos(args.nums[1]),
                        dx |-> Q(0), dy |-> Q(0)]

\* The vertex v scaled componentwise by s, then rotated by angle, then moved by t.
ScaleRotateTranslate(v, t, angle, s) ==
    LET sx == QMul(v.x, s.x)
        sy == QMul(v.y, s.y)
    IN  Pt(QAdd(QSub(QMul(sx, Cos(angle)), QMul(sy, Sin(angle))), t.x),
           QAdd(QAdd(QMul(sx, Sin(angle)), QMul(sy, Cos(angle))), t.y))

\* C4: transform(p, createMatrix({translate, rotate, scale})) maps each vertex
\* to the vertex scaled, then rotated, then translated.
C4_TransformScalesRotatesTranslates ==
    (/\ Called /\ args.fn = "transform"
     /\ IsPresent(args.options.translate)
     /\ IsPresent(args.options.rotate)
     /\ IsPresent(args.options.scale)) =>
        /\ ret.status = "returned"
        /\ Len(ret.value) = Len(args.polygon)
        /\ \A i \in 1..Len(args.polygon) :
              ret.value[i] = ScaleRotateTranslate(args.polygon[i],
                                                  ValueOf(args.options.translate),
                                                  ValueOf(args.options.rotate),
                                                  ValueOf(args.options.scale))

(***************************************************************************)
(* Claims about the canvas interaction                                     *)
(***************************************************************************)
\* The shapes whose world-space polygon holds the point, by index
ShapesAt(point) ==
    { i \in 1..Len(shapes) : isPointInPolygon(point, WorldPolygon(shapes[i])) }

\* The one latest in the shape collection among them
TopmostAt(point) == CHOOSE i \in ShapesAt(point) : \A k \in ShapesAt(point) : k <= i

\* C5: after a pointer-down at a point inside the world-space polygons of two
\* or more shapes, the selected shape, bound to the drag session, is the one
\* latest in the shape collection.
C5_TopmostShapeIsSelected ==
    (event.kind = "down" /\ Cardinality(ShapesAt(event.point)) >= 2) =>
        /\ isDragging
        /\ selectedShape = shapes[TopmostAt(event.point)].id

\* The shape that the drag session is bound to
DraggedShape == shapes[FindIndex(shapes, selectedShape)]

\* The shape's bounding box, from its local vertices, scale and rotation, is
\* no wider and no higher than the canvas less its margins.
FitsInsideMargins(shape) ==
    LET b == getShapeBounds(ScaledRotatedPolygon(shape))
    IN  /\ QLe(QSub(b.maxX, b.minX), Q(CanvasWidth - 2 * Margin))
        /\ QLe(QSub(b.maxY, b.minY), Q(CanvasHeight - 2 * Margin))

\* C6: after a handled pointer-move of a select-tool drag, the world-space
\* bounding box of the dragged shape, if the shape fits, lies within
\* [margin, canvasWidth - margin] x [margin, canvasHeight - margin].
C6_SelectDragKeepsBoundsInsideMargins ==
    (/\ event.kind = "move" /\ event.emitted /\ selectedTool = "select"
     /\ FitsInsideMargins(DraggedShape)) =>
        LET b == getShapeBounds(WorldPolygon(DraggedShape))
        IN  /\ QGe(b.minX, Q(Margin)) /\ QLe(b.maxX, Q(CanvasWidth - Margin))
            /\ QGe(b.minY, Q(Margin)) /\ QLe(b.maxY, Q(CanvasHeight - Margin))

\* C7: after a pointer-down that hit a shape while the active tool is scale,
\* initialScaleDistance is the distance between the pointer position and that
\* shape's translate.
C7_ScaleDownRecordsPointerDistance ==
    (event.kind = "down" /\ ShapesAt(event.point) # {} /\ selectedTool = "scale") =>
        /\ QGe(initialScaleDistance, Q(0))
        /\ QMul(initialScaleDistance, initialScaleDistance)
              = DistanceSquared(event.point.x, event.point.y,
                                DraggedShape.transform.translate)

\* The square of the distance of the session's pointer-down from the shape's
\* translate; dragStart holds the pointer-down's offset from it.
DownDistanceSquared == QAdd(QMul(dragStart.x, dragStart.x), QMul(dragStart.y, dragStart.y))

\* f = min(5.0, max(0.1, d / d0)), stated on the squares of d and d0 > 0
IsClampedRatio(f, dSquared, d0Squared) ==
    LET ratioSquared == QDiv(dSquared, d0Squared)
    IN  CASE QGe(ratioSquared, QMul(MaxScale, MaxScale)) -> f = MaxScale
          [] QLe(ratioSquared, QMul(MinScale, MinScale)) -> f = MinScale
          [] OTHER -> QGe(f, Q(0)) /\ QMul(f, f) = ratioSquared

\* C8: after a handled pointer-move of a scale session that started at
\* distance d0 > 0 from the shape's translate, at distance d from it, the
\* shape's scale is x = y = min(5.0, max(0.1, d / d0)); and every shape's
\* scale is uniform and within [0.1, 5.0].
C8_ScaleIsClampedDistanceRatio ==
    /\ (/\ event.kind = "move" /\ event.emitted /\ selectedTool = "scale"
        /\ DownDistanceSquared # Q(0)) =>
            /\ DraggedShape.transform.scale.x = DraggedShape.transform.scale.y
            /\ IsClampedRatio(DraggedShape.transform.scale.x,
                              DistanceSquared(event.point.x, event.point.y,
                                              DraggedShape.transform.translate),
                              DownDistanceSquared)
    /\ \A i \in 1..Len(shapes) :
            /\ shapes[i].transform.scale.x = shapes[i].transform.scale.y
            /\ QGe(shapes[i].transform.scale.x, MinScale)
            /\ QLe(shapes[i].transform.scale.x, MaxScale)

\* C9: after a pointer-up or a pointer-leave the canvas is not dragging; it
\* is dragging only between a pointer-down that hit a shape and the next
\* pointer-up or pointer-leave, and a pointer-move calls onShapeUpdate only
\* then.
C9_UpdatesOnlyWithinPointerSession ==
    /\ event.kind \in {"up", "leave"} => ~isDragging
    /\ isDragging => pointerSession
    /\ (event.kind = "move" /\ event.emitted) => pointerSession

\* A pointer-move after the session ended, with a shape still selected and
\* the throttle open, called no onShapeUpdate.
C9_Witness_MoveAfterReleaseIsIgnored ==
    /\ event.kind = "move"
    /\ ~event.emitted
    /\ ~pointerSession
    /\ selectedShape # NoShape
    /\ ~Throttled

\* C10: a pointer-move that calls onShapeUpdate comes at least 16 ms, by the
\* clock, after the last one that did; and a pointer-move less than 16 ms
\* after the last one that did changes neither the shape collection nor the
\* throttle timestamp.
C10_UpdatesAreSixteenMsApart ==
    [][(event'.kind = "move" /\ IsPresent(lastEmitTime)) =>
          /\ event'.emitted => now' - ValueOf(lastEmitTime) >= ThrottleMs
          /\ now' - ValueOf(lastEmitTime) < ThrottleMs =>
                /\ shapes' = shapes
                /\ lastUpdateTime' = lastUpdateTime]_vars

\* C11: a step of deleteShape(id) leaves no shape with that id in the
\* collection, a selection that is not id, and no drag session: the canvas is
\* not dragging, also when the delete comes while a drag of that shape is
\* active.
C11_DeleteClearsShapeSelectionAndSession ==
    [][event'.kind = "delete" =>
          /\ \A i \in 1..Len(shapes') : shapes'[i].id # selectedShape
          /\ selectedShape' # selectedShape
          /\ ~isDragging']_vars

\* C12: all shapes in the collection have pairwise distinct ids, whatever the
\* timing of the addShape calls.
C12_ShapeIdsArePairwiseDistinct ==
    \A i \in 1..Len(shapes) : \A k \in 1..Len(shapes) :
        i # k => shapes[i].id # shapes[k].id

(***************************************************************************)
(* Claims about the application's functions                                *)
(***************************************************************************)
\* C13: updateShape(id, patch) and deleteShape(id) with an id that is not in
\* the collection return, and leave the collection and the selection as they
\* were.
C13_UnknownIdIsNoOp ==
    [][(/\ args'.fn \in {"updateShape", "deleteShape"}
        /\ FindIndex(shapes, args'.nums[1]) = 0) =>
            /\ ret'.status = "returned"
            /\ shapes' = shapes
            /\ selectedShape' = selectedShape]_vars

\* deleteShape was called with an id that is not in the collection, which
\* holds two shapes, one of them selected.
C13_Witness_DeleteOfUnknownId ==
    /\ args.fn = "deleteShape"
    /\ args.nums[1] = StartTime + 2 * TickStep
    /\ ret.status = "returned"
    /\ Len(shapes) = 2
    /\ selectedShape # NoShape

\* The point is inside no shape's world-space polygon, as components/Canvas.tsx
\* builds and transforms the polygons of the shapes in the collection.
Legacy_InsideNoShape(point) ==
    \A i \in 1..Len(shapes) :
        ~isPointInPolygon(point, Legacy_TransformedPolygon(shapes[i]))

\* C14: a pointer-down, while the canvas is not dragging, at a point inside no
\* shape's world-space polygon clears the selection, leaves the canvas not
\* dragging and leaves the shape collection as it was.
C14_MissClearsSelection ==
    [][(/\ event'.kind = "down"
        /\ ~isDragging
        /\ Legacy_InsideNoShape(event'.point)) =>
            /\ selectedShape' = NoShape
            /\ ~isDragging'
            /\ shapes' = shapes]_vars

(***************************************************************************)
(* Claims about init() and the facade's backend handle                     *)
(***************************************************************************)
\* The call of init() has settled with a failure of its import, or of its
\* reading or instantiating the backend.
InitFailed(pc) == pc \in {"importFailed", "loadFailed"}

\* C15: a call of init() whose import, read or instantiation fails resolves
\* with the initialized flag set and isWasmAvailable() false; every facade
\* call returns the reference result and none throws; isWasmAvailable() is
\* true only if a load succeeded.
C15_FailedInitFallsBackToReference ==
    [][/\ \A i \in 1..MaxInitCalls :
            (InitFailed(initPc'[i]) /\ ~InitFailed(initPc[i])) =>
                isInitialized' /\ wasmModule' = "null"
       /\ (wasmModule' # "null") => \E i \in 1..MaxInitCalls : initPc'[i] = "loaded"
       /\ Called' => ret' = Return(Reference(args'))]_vars

\* After an init() that failed at its load, with no backend, area of a
\* triangle of area 8 was called and returned 8 from the reference path.
C15_Witness_CallAfterFailedInit ==
    /\ \E i \in 1..MaxInitCalls : initPc[i] = "loadFailed"
    /\ isInitialized
    /\ ~isWasmAvailable
    /\ args.fn = "area"
    /\ backend = "notCalled"
    /\ ret = Return(Q(8))

\* C16: a facade call in which the backend throws leaves the backend handle
\* as it was, so isWasmAvailable() is still true; and every call, made while
\* the backend is loaded, of a facade function that has a backend path calls
\* the backend.
C16_ThrowKeepsBackendHandle ==
    [][(~Called /\ Called') =>
          /\ backend' = "threw" => (wasmModule' = wasmModule /\ isWasmAvailable')
          /\ (isWasmAvailable /\ HasBackendPath(args'.fn)) =>
                backend' \in {"threw", "returned"}]_vars

\* The backend threw in a call of transform, and the backend is still loaded.
C16_Witness_ThrowInTransformKeepsHandle ==
    /\ backend = "threw"
    /\ args.fn = "transform"
    /\ Len(args.polygon) = 1
    /\ isWasmAvailable
    /\ ret.status = "returned"

\* The functions that the facade exposes from the geometry surface
GeometrySurface ==
    {"area", "perimeter", "centroid", "transform",
     "createSquare", "createTriangle", "createCircle", "createRectangle"}

\* C17: every call of area, perimeter, centroid, transform, createSquare,
\* createTriangle, createCircle or createRectangle calls the backend when it
\* is loaded, and returns the reference result when the backend is not loaded
\* or throws.
C17_EveryFunctionTriesBackendFirst ==
    [][(~Called /\ Called' /\ args'.fn \in GeometrySurface) =>
          /\ isWasmAvailable => backend' \in {"threw", "returned"}
          /\ backend' \in {"notCalled", "threw"} => ret' = Return(Reference(args'))]_vars

\* C18: area of a polygon with fewer than 3 vertices is 0, perimeter of a
\* polygon with 0 or 1 vertices is 0, centroid of the empty polygon is
\* {0, 0}, centroid of a single vertex is that vertex, and each of these
\* calls returns.
C18_DegeneratePolygonsHaveDefinedMetrics ==
    Called =>
        /\ (args.fn = "area" /\ Len(args.polygon) < 3) => ret = Return(Q(0))
        /\ (args.fn = "perimeter" /\ Len(args.polygon) <= 1) => ret = Return(Q(0))
        /\ (args.fn = "centroid" /\ Len(args.polygon) = 0) => ret = Return(IPt(0, 0))
        /\ (args.fn = "centroid" /\ Len(args.polygon) = 1) =>
                ret = Return(args.polygon[1])

\* centroid was called on a single vertex other than the origin and
\* returned that vertex.
C18_Witness_CentroidOfSingleVertex ==
    /\ Called
    /\ args.fn = "centroid"
    /\ Len(args.polygon) = 1
    /\ args.polygon[1] # IPt(0, 0)
    /\ ret = Return(args.polygon[1])

\* The sum of the rationals f[i] over the indices i in S.
RECURSIVE SumOver(_, _)
SumOver(f, S) ==
    IF S = {} THEN Q(0)
    ELSE LET i == CHOOSE k \in S : TRUE
         IN  QAdd(f[i], SumOver(f, S \ {i}))

\* |sum of (x_i * y_{i+1} - x_{i+1} * y_i)| / 2, the indices taken mod N
ShoelaceFormula(p) ==
    LET N == Len(p)
        term == [i \in 1..N |->
                    QSub(QMul(p[i].x, p[(i % N) + 1].y),
                         QMul(p[(i % N) + 1].x, p[i].y))]
    IN  QDiv(QAbs(SumOver(term, 1..N)), Q(2))

\* The vertices of p in the opposite order.
Reversed(p) == [i \in 1..Len(p) |-> p[Len(p) + 1 - i]]

\* C19: area returns the shoelace formula's value, the same for a polygon
\* and for its vertices in the opposite order; the square of size s has area
\* s * s and perimeter 4 * s, and the triangle of base b and height h has
\* area b * h / 2.
C19_AreaIsShoelaceAndShapesMeasureRight ==
    Called =>
        /\ args.fn = "area" =>
              /\ ret = Return(ShoelaceFormula(args.polygon))
              /\ ret = Return(ShoelaceFormula(Reversed(args.polygon)))
              /\ \A s \in Sizes :
                    args.polygon = GeometryJS_createSquare(s) =>
                        ret = Return(QMul(s, s))
              /\ \A b \in Sizes, h \in Sizes :
                    args.polygon = GeometryJS_createTriangle(b, h) =>
                        ret = Return(QDiv(QMul(b, h), Q(2)))
        /\ args.fn = "perimeter" =>
              \A s \in Sizes :
                  args.polygon = GeometryJS_createSquare(s) =>
                      ret = Return(QMul(Q(4), s))

\* area was called on the square of size 2, drawn counter-clockwise, and
\* returned 4.
C19_Witness_AreaOfSquareOfSizeTwo ==
    /\ Called
    /\ args.fn = "area"
    /\ args.polygon = GeometryJS_createSquare(Q(2))
    /\ ret = Return(Q(4))

\* (sum of x / N, sum of y / N) for the N >= 1 vertices of p
MeanOfVertices(p) ==
    LET N == Len(p)
    IN  Pt(QDiv(SumOver([i \in 1..N |-> p[i].x], 1..N), Q(N)),
           QDiv(SumOver([i \in 1..N |-> p[i].y], 1..N), Q(N)))

\* C20: centroid of a polygon with at least one vertex is the arithmetic
\* mean of its vertices, and centroid of the square of size s is
\* (s / 2, s / 2).
C20_CentroidIsMeanOfVertices ==
    (Called /\ args.fn = "centroid" /\ Len(args.polygon) >= 1) =>
        /\ ret = Return(MeanOfVertices(args.polygon))
        /\ \A s \in Sizes :
              args.polygon = GeometryJS_createSquare(s) =>
                  ret = Return(Pt(QDiv(s, Q(2)), QDiv(s, Q(2))))

\* centroid was called on a triangle whose mean is not its bounding box's
\* centre and returned the mean.
C20_Witness_CentroidOfTriangle ==
    /\ Called
    /\ args.fn = "centroid"
    /\ args.polygon = GeometryJS_createTriangle(Q(2), Q(3))
    /\ ret = Return(Pt(Q(1), Q(1)))

\* C21: createSquare(s) returns (0,0), (s,0), (s,s), (0,s); createTriangle(b, h)
\* returns (0,0), (b,0), (b/2,h); createRectangle(w, h) returns (0,0), (w,0),
\* (w,h), (0,h); createCircle(center, r, n) returns n vertices, 32 when n is
\* omitted, the first of them (center.x + r, center.y); so the result is a
\* function of the arguments.
C21_ConstructorsReturnDocumentedVertices ==
    Called =>
        /\ args.fn = "createSquare" =>
              LET s == args.nums[1]
              IN  ret = Return(<< IPt(0, 0), Pt(s, Q(0)), Pt(s, s), Pt(Q(0), s) >>)
        /\ args.fn = "createTriangle" =>
              LET b == args.nums[1]
                  h == args.nums[2]
              IN  ret = Return(<< IPt(0, 0), Pt(b, Q(0)), Pt(Frac(b.n, 2 * b.d), h) >>)
        /\ args.fn = "createRectangle" =>
              LET w == args.nums[1]
                  h == args.nums[2]
              IN  ret = Return(<< IPt(0, 0), Pt(w, Q(0)), Pt(w, h), Pt(Q(0), h) >>)
        /\ args.fn = "createCircle" =>
              /\ ret.status = "returned"
              /\ Len(ret.value) = IF Len(args.nums) >= 2 THEN args.nums[2].n ELSE 32
              /\ Len(ret.value) >= 1 =>
                    ret.value[1] = Pt(QAdd(args.polygon[1].x, args.nums[1]),
                                      args.polygon[1].y)

\* createCircle was called without a segment count, around a centre other
\* than the origin, and returned 32 vertices.
C21_Witness_CircleWithDefaultSegments ==
    /\ Called
    /\ args.fn = "createCircle"
    /\ Len(args.nums) = 1
    /\ args.polygon[1] = IPt(2, 3)
    /\ args.nums[1] = Q(2)
    /\ Len(ret.value) = 32
    /\ ret.value[1] = IPt(4, 3)

\* C22: createMatrix({}) is the matrix with m11 = m22 = 1 and m12 = m21 = dx =
\* dy = 0, and transform(p, createMatrix({})) returns p's vertices in p's
\* order.
C22_EmptyOptionsGiveIdentity ==
    (Called /\ args.options = NoOptions) =>
        /\ args.fn = "createMatrix" =>
              ret = Return([m11 |-> Q(1), m12 |-> Q(0), m21 |-> Q(0), m22 |-> Q(1),
                            dx |-> Q(0), dy |-> Q(0)])
        /\ args.fn = "transform" => ret = Return(args.polygon)

\* transform was called with createMatrix({}) on two vertices off the
\* diagonal and returned them.
C22_Witness_IdentityTransformOfTwoVertices ==
    /\ Called
    /\ args.fn = "transform"
    /\ args.options = NoOptions
    /\ args.polygon = << IPt(1, 4), IPt(4, 0) >>
    /\ ret.value = args.polygon

\* C23: translate(dx, dy) is the matrix with identity linear part and
\* offsets dx, dy; for a polygon p with at least one vertex,
\* centroid(transform(p, translate(dx, dy))) is centroid(p) moved by (dx, dy),
\* and area and perimeter of the transformed polygon are those of p.
C23_TranslationMovesCentroidKeepsMeasures ==
    Called =>
        /\ args.fn = "translate" =>
              ret = Return([m11 |-> Q(1), m12 |-> Q(0), m21 |-> Q(0), m22 |-> Q(1),
                            dx |-> args.nums[1], dy |-> args.nums[2]])
        /\ (args.fn = "centroidOfTranslated" /\ Len(args.polygon) >= 1) =>
              ret = Return(Pt(QAdd(GeometryJS_centroid(args.polygon).x, args.nums[1]),
                              QAdd(GeometryJS_centroid(args.polygon).y, args.nums[2])))
        /\ (args.fn = "areaOfTranslated" /\ Len(args.polygon) >= 1) =>
              ret = Return(GeometryJS_area(args.polygon))
        /\ (args.fn = "perimeterOfTranslated" /\ Len(args.polygon) >= 1) =>
              ret = Return(GeometryJS_perimeter(args.polygon))

\* C23, for whole numbers: translate(dx, dy) is the matrix with identity linear
\* part and offsets dx, dy; for a polygon p with n >= 1 vertices, whole
\* coordinates and whole dx, dy, the area and the perimeter of
\* transform(p, translate(dx, dy)) are those of p, and its centroid is the
\* mean of p's vertices moved by (dx, dy) and rounded once, that is
\* ((sum of the x_i) + n * dx) / n and likewise for y, which is
\* centroid(p) + (dx, dy) when n divides both coordinate sums.
C23_TranslationOfWholePolygons ==
    Called =>
        /\ args.fn = "translate" =>
              ret = Return([m11 |-> Q(1), m12 |-> Q(0), m21 |-> Q(0), m22 |-> Q(1),
                            dx |-> args.nums[1], dy |-> args.nums[2]])
        /\ (/\ args.fn = "centroidOfTranslated"
            /\ Len(args.polygon) >= 1
            /\ HasWholeCoordinates(args.polygon)) =>
              LET n == Len(args.polygon)
                  sumX == SumX(args.polygon, n).n
                  sumY == SumY(args.polygon, n).n
              IN  /\ ret = Return(Pt(Frac(sumX + n * args.nums[1].n, n),
                                     Frac(sumY + n * args.nums[2].n, n)))
                  /\ (sumX % n = 0 /\ sumY % n = 0) =>
                        ret = Return(Pt(QAdd(GeometryJS_centroid(args.polygon).x,
                                             args.nums[1]),
                                        QAdd(GeometryJS_centroid(args.polygon).y,
                                             args.nums[2])))
        /\ (/\ args.fn = "areaOfTranslated"
            /\ Len(args.polygon) >= 1
            /\ HasWholeCoordinates(args.polygon)) =>
              ret = Return(GeometryJS_area(args.polygon))
        /\ (/\ args.fn = "perimeterOfTranslated"
            /\ Len(args.polygon) >= 1
            /\ HasWholeCoordinates(args.polygon)) =>
              ret = Return(GeometryJS_perimeter(args.polygon))

\* The centroid of the triangle (0, 0), (0, 1), (4, 0) moved by (2, 3) was
\* computed: the double nearest to 10/3, twice, and its x is not the double
\* 4/3 + 2.
C23_Witness_CentroidOfMovedTriangle ==
    /\ Called
    /\ args.fn = "centroidOfTranslated"
    /\ args.polygon = << IPt(0, 0), IPt(0, 1), IPt(4, 0) >>
    /\ args.nums = << Q(2), Q(3) >>
    /\ ret = Return(Pt(Frac(10, 3), Frac(10, 3)))
    /\ ret.value.x # QAdd(Frac(4, 3), Q(2))

\* C24: scale(sx, sy) is the matrix with m11 = sx, m22 = sy and m12 = m21 =
\* dx = dy = 0, and area(transform(p, scale(sx, sy))) is |sx * sy| * area(p).
C24_ScalingMultipliesArea ==
    Called =>
        /\ args.fn = "scale" =>
              ret = Return([m11 |-> args.nums[1], m12 |-> Q(0), m21 |-> Q(0),
                            m22 |-> args.nums[2], dx |-> Q(0), dy |-> Q(0)])
        /\ args.fn = "areaOfScaled" =>
              ret = Return(QMul(QAbs(QMul(args.nums[1], args.nums[2])),
                                GeometryJS_area(args.polygon)))

\* C24, for whole numbers: scale(sx, sy) is the matrix with m11 = sx, m22 = sy
\* and m12 = m21 = dx = dy = 0, and for a polygon p with whole coordinates and
\* whole sx, sy, area(transform(p, scale(sx, sy))) is |sx * sy| * area(p).
C24_ScalingOfWholePolygons ==
    Called =>
        /\ args.fn = "scale" =>
              ret = Return([m11 |-> args.nums[1], m12 |-> Q(0), m21 |-> Q(0),
                            m22 |-> args.nums[2], dx |-> Q(0), dy |-> Q(0)])
        /\ (args.fn = "areaOfScaled" /\ HasWholeCoordinates(args.polygon)) =>
              ret = Return(QMul(QAbs(QMul(args.nums[1], args.nums[2])),
                                GeometryJS_area(args.polygon)))

\* The area of a triangle mirrored and stretched by scale(-1, 2) was computed
\* and is twice the triangle's area.
C24_Witness_AreaOfMirroredTriangle ==
    /\ Called
    /\ args.fn = "areaOfScaled"
    /\ args.polygon = << IPt(0, 0), IPt(4, 0), IPt(0, 1) >>
    /\ args.nums = << Q(-1), Q(2) >>
    /\ ret = Return(Q(4))

\* C25: a call transform(p, m) returns a polygon with as many vertices as p,
\* the i-th being (m11 * x_i + m12 * y_i + dx, m21 * x_i + m22 * y_i + dy), and
\* leaves p's vertex list and the options that m was made from as they were.
C25_TransformIsPure ==
    [][(~Called /\ Called' /\ args.fn = "transform") =>
          LET p == args.polygon
              m == GeometryJS_createMatrix(args.options)
          IN  /\ args' = args
              /\ ret'.status = "returned"
              /\ Len(ret'.value) = Len(p)
              /\ \A i \in 1..Len(p) :
                    /\ ret'.value[i].x =
                          QAdd(QAdd(QMul(m.m11, p[i].x), QMul(m.m12, p[i].y)), m.dx)
                    /\ ret'.value[i].y =
                          QAdd(QAdd(QMul(m.m21, p[i].x), QMul(m.m22, p[i].y)), m.dy)]_vars

\* transform was called on two vertices with a matrix that moves them, and
\* the call's polygon still holds the vertices it was called with.
C25_Witness_TransformMovedCopyOfTwoVertices ==
    /\ Called
    /\ args.fn = "transform"
    /\ args.polygon = << IPt(1, 4), IPt(4, 0) >>
    /\ IsPresent(args.options.translate)
    /\ IsPresent(args.options.rotate)
    /\ Len(ret.value) = 2
    /\ ret.value # args.polygon

\* (b - a) x (p - a) for a point p with integer coordinates
Cross(a, b, px, py) ==
    (b.x.n - a.x.n) * (py - a.y.n) - (b.y.n - a.y.n) * (px - a.x.n)

\* The point (px, py) is on the same strict side of every edge of the
\* convex polygon.
StrictlyInside(px, py, vertices) ==
    LET n == Len(vertices)
        side(i) == Cross(vertices[i], vertices[(i % n) + 1], px, py)
    IN  \/ \A i \in 1..n : side(i) > 0
        \/ \A i \in 1..n : side(i) < 0

\* The point (px, py) is neither inside the convex polygon nor on an edge.
StrictlyOutside(px, py, vertices) ==
    LET n == Len(vertices)
        side(i) == Cross(vertices[i], vertices[(i % n) + 1], px, py)
    IN  /\ \E i \in 1..n : side(i) > 0
        /\ \E i \in 1..n : side(i) < 0

\* C26: isPointInPolygon returns a boolean; it returns false for a vertex
\* list with fewer than 3 vertices, true for a point strictly inside a convex
\* polygon and false for a point strictly outside it.
C26_HitTestAnswersByGeometry ==
    (Called /\ args.fn = "isPointInPolygon") =>
        /\ ret.status = "returned"
        /\ ret.value \in BOOLEAN
        /\ Len(args.polygon) < 3 => ret.value = FALSE
        /\ (args.polygon \in ConvexHitPolygons /\ IsFraction(args.nums[1])) =>
              LET px == args.nums[1].n
                  py == args.nums[2].n
              IN  /\ StrictlyInside(px, py, args.polygon) => ret.value = TRUE
                  /\ StrictlyOutside(px, py, args.polygon) => ret.value = FALSE

\* The entry that the benchmark function fn returned for its k-th timed run
ResultEntry(fn, value, k) ==
    IF fn = "benchmark" THEN value ELSE value[EntryNames(fn)[k]]

\* C27: every entry that benchmark, comprehensiveBenchmark or
\* realWorldBenchmark returns has under wasm the time measured for the
\* backend's loop (0 when the backend is not loaded), under js the time
\* measured for the reference loop, both at least 0, and under ratio js / wasm
\* when wasm > 0 and 0 otherwise.
C27_BenchmarkReportsMeasuredTimes ==
    (Called /\ ret.status = "returned"
        /\ args.fn \in {"benchmark", "comprehensiveBenchmark", "realWorldBenchmark"}) =>
        \A k \in 1..Len(args.polygon) :
            LET entry == ResultEntry(args.fn, ret.value, k)
                run == args.polygon[k]
            IN  /\ entry.wasm = (IF isWasmAvailable THEN run.wasmElapsed ELSE Q(0))
                /\ entry.js = run.jsTime
                /\ QGe(entry.wasm, Q(0))
                /\ QGe(entry.js, Q(0))
                /\ entry.ratio = IF QGt(entry.wasm, Q(0))
                                 THEN QDiv(entry.js, entry.wasm)
                                 ELSE Q(0)

\* The transform component that the tool changes
ToolComponent(tool) ==
    CASE tool = "select" -> "translate"
      [] tool = "rotate" -> "rotate"
      [] tool = "scale" -> "scale"

\* after is before, but for the transform component of the tool.
ChangedOnlyBy(tool, before, after) ==
    /\ after.id = before.id
    /\ after.type = before.type
    /\ after.size = before.size
    /\ after.base = before.base
    /\ after.height = before.height
    /\ after.center = before.center
    /\ after.radius = before.radius
    /\ \A c \in {"translate", "rotate", "scale"} \ {ToolComponent(tool)} :
          after.transform[c] = before.transform[c]

\* C28: a pointer-move that calls onShapeUpdate leaves the collection with
\* the same shapes in the same order; the selected shape differs at most in
\* the transform component of the active tool, and every other shape is as it
\* was.
C28_UpdateChangesOnlyToolComponentOfSelected ==
    [][(event'.kind = "move" /\ event'.emitted) =>
          /\ Len(shapes') = Len(shapes)
          /\ \A i \in 1..Len(shapes) :
                IF i = FindIndex(shapes, selectedShape)
                THEN ChangedOnlyBy(selectedTool, shapes[i], shapes'[i])
                ELSE shapes'[i] = shapes[i]]_vars

\* The calls of init() that went on to instantiate the backend
InstantiatingCalls(pc) ==
    { i \in 1..MaxInitCalls : pc[i] \in {"load", "loaded", "loadFailed"} }

\* C29: over all calls of init(), overlapping ones included, at most one
\* imports and instantiates the backend and at most one assigns the backend
\* handle; a call of init() after a completed one returns without loading
\* and leaves isWasmAvailable() as it is.
C29_BackendIsLoadedAtMostOnce ==
    [][/\ Cardinality(InstantiatingCalls(initPc')) <= 1
       /\ Cardinality({ i \in 1..MaxInitCalls : initPc'[i] = "loaded" }) <= 1
       /\ \A i \in 1..MaxInitCalls :
             (isInitialized /\ initPc[i] = "idle" /\ initPc'[i] # "idle") =>
                 /\ initPc'[i] = "skipped"
                 /\ isWasmAvailable' = isWasmAvailable]_vars

\* C30: for every vertex list, calculateArea, calculatePerimeter and
\* calculateCentroid of App.tsx return what GeometryJS.area,
\* GeometryJS.perimeter and GeometryJS.centroid return for it.
C30_AppMetricsAgreeWithGeometryJS ==
    Called =>
        /\ args.fn = "calculateArea" => ret = Return(GeometryJS_area(args.polygon))
        /\ args.fn = "calculatePerimeter" =>
              ret = Return(GeometryJS_perimeter(args.polygon))
        /\ args.fn = "calculateCentroid" =>
              ret = Return(GeometryJS_centroid(args.polygon))

====
